---- MODULE Spec2Model ----
(***************************************************************************)
(* ContentGen Pro (magic-tricks app): a model of the completion-reply      *)
(* parser, the file validation and upload wrappers, the local session      *)
(* cache, the auth provider and the row-level-security policies.           *)
(*                                                                         *)
(* Specifications:                                                         *)
(*   SpecParse    lib/claude.ts          generateMagicTrick and its parser *)
(*   SpecStorage  lib/supabaseStorage.ts uploads, deletes and validation   *)
(*   SpecCache    lib/storage.ts         the 24-hour session cache         *)
(*   SpecAuth     contexts/AuthContext   the auth provider's flows         *)
(*   SpecRls      database setup script  the row-level-security policies   *)
(***************************************************************************)
EXTENDS Integers, Sequences, FiniteSets, TLC

VARIABLES
  \* --- lib/claude.ts
  request,      \* the TrickGenerationRequest of the last generateMagicTrick call
  apiReply,     \* what anthropic.messages.create did in that call
  response,     \* the TrickGenerationResponse it resolved with
  \* --- lib/supabaseStorage.ts, validateFile
  validation,   \* the last validateFile call: its arguments and its result
  \* --- the upload and delete handlers of the gallery and profile pages
  user,         \* AuthContext's user (an id, or Null)
  page,         \* the mounted page: "gallery" or "profile"
  clock,        \* the readings of Date.now() so far
  uploadType,   \* GalleryPage's uploadType: "image", "video" or Null
  errors,       \* errors.upload (gallery) and errors.profilePicture (profile)
  uploadStatus, \* the mounted page's uploadStatus
  profilePicture, \* ProfilePage's profileData.profilePicture (a path, or none)
  storageRequest, \* the last request sent to object storage
  pending,      \* the handler awaiting that request, or idle
  mediaItems,   \* GalleryPage's mediaItems
  selectedMedia, \* GalleryPage's selectedMedia (an item id, or Null)
  \* --- lib/storage.ts
  localStorage, \* the browser's localStorage under the four STORAGE_KEYS
  now,          \* Date.now(), in milliseconds
  ret,          \* the last call of a getter of lib/storage.ts and its result
  \* --- contexts/AuthContext.tsx
  userProfile,  \* AuthProvider's userProfile (a profile, or NoProfile)
  loading,      \* AuthProvider's loading
  error,        \* AuthProvider's error ("" for null)
  isInitialized, \* the init effect's isInitialized
  maxTimeout,   \* the 10-second maxTimeout timer is armed
  initPc,       \* initializeAuth: "start", "getSession" (awaiting it), "done"
  sessionCheck, \* how supabase.auth.getSession resolved during initialization
  remote,       \* the user of the auth client's session (or Null)
  events,       \* the auth-change events emitted and not yet delivered
  flows,        \* the fetchUserProfile / createUserProfile flows in flight
  update,       \* the updateProfile call in flight (or NoUpdate)
  signOutPc,    \* signOut: "idle" or "awaiting" supabase.auth.signOut
  signedOut,    \* signOut has completed and nobody has signed in since
  inserted,     \* the insert of createUserProfile that has just resolved
  \* --- the database
  usersTable,   \* the rows of the table users
  magicTricks,  \* the rows of the table magic_tricks
  statement,    \* the last SQL statement and what it did
  \* --- lib/supabaseStorage.ts called on its own
  storageCall,  \* the last call of uploadFile or deleteFile and its result
  \* --- App.tsx, the auth page
  pathname,     \* location.pathname
  submit,       \* the auth page's handleSubmit: idle, awaiting signIn, or done
  signOutNav,   \* handleSignOut has navigated and no button was pressed since
  \* --- MagicTricksPage
  tricks,       \* the rows of the trick list, the newest first
  saving,
  trickError,   \* the page's error ("" for none)
  isAddOpen,
  newTitle,
  newDescription,
  newDifficulty,
  newInstructionsText,
  isGenerating,
  showGenerateModal,
  selectedItems,
  generationError,
  generatedTrick, \* the generated trick, or NoTrick for null
  apiKey,       \* VITE_CLAUDE_API_KEY is set
  generation,   \* the generateMagicTrick call in flight (or NoGeneration)
  trickInsert   \* the insert into magic_tricks in flight (or NoTrickInsert)

parseVars == <<request, apiReply, response>>
validateVars == <<validation>>
pageVars == <<page, clock, uploadType, errors, uploadStatus, profilePicture,
              storageRequest, pending, mediaItems, selectedMedia>>
storageVars == <<user, pageVars>>

cacheVars == <<localStorage, now, ret>>
authVars == <<userProfile, loading, error, isInitialized, maxTimeout, initPc,
              sessionCheck, remote, events, flows, update, signOutPc, signedOut,
              inserted>>

rlsVars == <<usersTable, magicTricks, statement>>

remoteVars == <<storageCall>>

appVars == <<pathname, submit, signOutNav>>

formVars == <<isAddOpen, newTitle, newDescription, newDifficulty, newInstructionsText>>
generateVars == <<isGenerating, showGenerateModal, selectedItems, generationError,
                  generatedTrick, apiKey, generation>>
tricksVars == <<tricks, saving, trickError, trickInsert, formVars, generateVars>>

vars == <<parseVars, validateVars, storageVars, cacheVars, authVars, rlsVars,
          remoteVars, appVars, tricksVars>>

Null == "null"

(***************************************************************************)
(* JavaScript values.  A value is a record [type, val]; val is a sequence  *)
(* of strings: the characters of a string as one element (empty for ""),   *)
(* the elements of an array, the digits of a number.                       *)
(***************************************************************************)
JsUndefined == [type |-> "undefined", val |-> <<>>]
JsString(s) == [type |-> "string", val |-> IF s = "" THEN <<>> ELSE <<s>>]
JsNumber(n) == [type |-> "number", val |-> <<n>>]
JsArray(xs) == [type |-> "array", val |-> xs]

\* JavaScript truthiness, as used by `a || b`.
Truthy(v) ==
  CASE v.type = "undefined" -> FALSE
    [] v.type = "null"      -> FALSE
    [] v.type = "string"    -> v.val # <<>>
    [] v.type = "number"    -> v.val # <<"0">>
    [] v.type = "boolean"   -> v.val = <<"true">>
    [] OTHER                -> TRUE

\* a || b
JsOr(a, b) == IF Truthy(a) THEN a ELSE b

\* Array.isArray(v)
IsArray(v) == v.type = "array"

(***************************************************************************)
(* lib/claude.ts                                                           *)
(*                                                                         *)
(* A reply text is a sequence of tokens: "w" a piece of prose without      *)
(* braces, "{" and "}" the brace characters, and "b" the member list of    *)
(* the trick object ("title": ..., "description": ..., ...), whose values  *)
(* are the record apiReply.body.                                           *)
(***************************************************************************)
MaxLen == 4

Token == {"w", "{", "}", "b"}

Contents == UNION {[1..n -> Token] : n \in 0..MaxLen}

Keys == {"title", "description", "instructions", "difficulty", "items"}

TitleValues == {JsUndefined, JsString(""), JsString("T"), JsNumber("7")}
DescriptionValues == {JsString(""), JsString("D")}
InstructionsValues == {JsUndefined, JsString("S"), JsArray(<<"a", "b">>)}
DifficultyValues == {JsString("Easy"), JsString("Hard"), JsString("Expert")}
ItemsValues == {JsUndefined, JsString("x"), JsArray(<<"x">>)}

Bodies ==
  [title : TitleValues, description : DescriptionValues,
   instructions : InstructionsValues, difficulty : DifficultyValues,
   items : ItemsValues]

\* The object JSON.parse gives for "{}": every member undefined.
EmptyObject == [k \in Keys |-> JsUndefined]

RequestedItems == {JsArray(<<"Coins">>), JsArray(<<"Coins", "Cups">>)}

\* content.match(/\{[\s\S]*\}/): the leftmost "{" up to the last "}" after it
\* (the star is greedy), or no match.
LBraces(content) == {i \in 1..Len(content) : content[i] = "{"}
RBraces(content) == {i \in 1..Len(content) : content[i] = "}"}
Min(S) == CHOOSE x \in S : \A y \in S : x <= y
Max(S) == CHOOSE x \in S : \A y \in S : x >= y

HasJsonMatch(content) ==
  /\ LBraces(content) # {}
  /\ \E j \in RBraces(content) : j > Min(LBraces(content))

jsonMatch(content) ==
  SubSeq(content, Min(LBraces(content)), Max(RBraces(content)))

\* JSON.parse of a span that starts with "{" and ends with "}": over this
\* alphabet the only well-formed texts are "{}" and "{" members "}".
JsonParses(span) == span = <<"{", "}">> \/ span = <<"{", "b", "}">>

JsonParse(span, body) == IF span = <<"{", "}">> THEN EmptyObject ELSE body

\* The catch branch's trick.
FallbackTrick(requestedItems) ==
  [title |-> JsString("AI Generated Magic Trick"),
   description |-> JsString("A magical trick created using artificial intelligence!"),
   instructions |-> JsArray(<<"Gather your items", "Follow the magical steps",
                              "Practice the routine", "Amaze your audience!">>),
   difficulty |-> JsString("Easy"),
   items |-> requestedItems]

cleanTitle(parsed) == JsOr(parsed.title, JsString("Generated Magic Trick"))

cleanDescription(parsed) ==
  JsOr(parsed.description, JsString("A magical trick created just for you!"))

\* Mutant: the Array.isArray test on instructions is dropped.
cleanInstructions_unchecked(parsed) == parsed.instructions

cleanInstructions(parsed) ==
  IF IsArray(parsed.instructions) THEN parsed.instructions
  ELSE JsArray(<<"Follow the magic!">>)

cleanDifficulty(parsed) ==
  IF parsed.difficulty \in {JsString("Easy"), JsString("Medium"), JsString("Hard")}
  THEN parsed.difficulty ELSE JsString("Easy")

cleanItems(parsed, requestedItems) ==
  IF IsArray(parsed.items) THEN parsed.items ELSE requestedItems

\* The try branch's trick, once JSON.parse has succeeded.
CleanTrick(parsed, requestedItems) ==
  [title |-> cleanTitle(parsed),
   description |-> cleanDescription(parsed),
   instructions |-> cleanInstructions(parsed),
   difficulty |-> cleanDifficulty(parsed),
   items |-> cleanItems(parsed, requestedItems)]

\* Mutant: a reply without a parseable object is cleaned as an empty object
\* instead of taking the catch branch.
parseGeneratedTrick_nothrow(content, body, requestedItems) ==
  IF ~HasJsonMatch(content) THEN CleanTrick(EmptyObject, requestedItems)
  ELSE IF ~JsonParses(jsonMatch(content)) THEN CleanTrick(EmptyObject, requestedItems)
  ELSE CleanTrick(JsonParse(jsonMatch(content), body), requestedItems)

parseGeneratedTrick(content, body, requestedItems) ==
  IF ~HasJsonMatch(content) THEN FallbackTrick(requestedItems)
  ELSE IF ~JsonParses(jsonMatch(content)) THEN FallbackTrick(requestedItems)
  ELSE CleanTrick(JsonParse(jsonMatch(content), body), requestedItems)

NoTrick == [title |-> JsUndefined, description |-> JsUndefined,
            instructions |-> JsUndefined, difficulty |-> JsUndefined,
            items |-> JsUndefined]

Failure(msg) == [success |-> FALSE, trick |-> NoTrick, error |-> msg]
Success(trick) == [success |-> TRUE, trick |-> trick, error |-> ""]

\* What a remote call can throw: an Error with its message (which may be
\* empty), or a value that is not an Error.
Messages == {"", "Failed to fetch"}
NoThrow == [isError |-> FALSE, message |-> ""]
Thrown == [isError : {TRUE}, message : Messages] \cup {NoThrow}

\* Mutant: the catch block gives its default text whatever was thrown.
catchMessage_default(thrown, fallback) == fallback

\* error instanceof Error ? error.message : fallback
catchMessage(thrown, fallback) ==
  IF thrown.isError THEN thrown.message ELSE fallback

\* What anthropic.messages.create can do: throw, resolve with no content
\* block (msg.content[0]?.text undefined) or resolve with a text.
ApiReplies ==
  [kind : {"throws"}, content : {<<>>}, body : {EmptyObject}, thrown : Thrown]
  \cup {[kind |-> "noblock", content |-> <<>>, body |-> EmptyObject,
         thrown |-> NoThrow]}
  \cup [kind : {"text"}, content : Contents, body : Bodies, thrown : {NoThrow}]

NoReply == [kind |-> "none", content |-> <<>>, body |-> EmptyObject,
            thrown |-> NoThrow]

\* Before the call.
IdleReply == [kind |-> "idle", content |-> <<>>, body |-> EmptyObject,
              thrown |-> NoThrow]

Requests == [items : RequestedItems, apiKey : BOOLEAN]

generateMagicTrickResult(req, reply) ==
  IF ~req.apiKey
  THEN Failure("Claude API key not configured")
  ELSE IF reply.kind = "throws"
  THEN Failure(catchMessage(reply.thrown, "Failed to generate magic trick"))
  ELSE IF reply.kind = "noblock" \/ reply.content = <<>>
  THEN Failure("No content received from Claude API")
  ELSE Success(parseGeneratedTrick(reply.content, reply.body, req.items))

\* One call of generateMagicTrick; without an API key no request is issued.
generateMagicTrick ==
  /\ apiReply = IdleReply
  /\ storageCall.fn = "none"
  /\ \E req \in Requests :
       \E reply \in IF req.apiKey THEN ApiReplies ELSE {NoReply} :
         /\ request' = req
         /\ apiReply' = reply
         /\ response' = generateMagicTrickResult(req, reply)
  /\ UNCHANGED <<validateVars, storageVars, cacheVars, authVars, rlsVars, remoteVars, appVars, tricksVars>>

ParseIdle ==
  /\ request = [items |-> JsArray(<<"Coins">>), apiKey |-> TRUE]
  /\ apiReply = IdleReply
  /\ response = Failure("")

(***************************************************************************)
(* lib/supabaseStorage.ts: validateFile                                    *)
(***************************************************************************)
MB == 1024 * 1024

ProfilePictureTypes == {"image/jpeg", "image/png", "image/gif", "image/webp"}
ProfilePictureMaxSize == 5 * MB

UserVideoTypes == {"video/mp4", "video/webm", "video/quicktime", "video/x-msvideo"}
UserVideoMaxSize == 50 * MB

MimeTypes == ProfilePictureTypes \cup UserVideoTypes \cup {"application/pdf"}

\* File sizes around the two limits.
Sizes == {0, ProfilePictureMaxSize - 1, ProfilePictureMaxSize,
          ProfilePictureMaxSize + 1, UserVideoMaxSize, UserVideoMaxSize + 1}

\* A file name is the sequence of its dot-separated parts.
FileNames == {<<"cat", "png">>, <<"clip", "mp4">>, <<"README">>, <<"odd", "">>}

Files == [name : FileNames, type : MimeTypes, size : Sizes]

Valid == [valid |-> TRUE, error |-> ""]
Invalid(msg) == [valid |-> FALSE, error |-> msg]

\* Mutant: the size test rejects a file of exactly the limit.
validateFile_strict(file, allowedTypes, maxSizeInBytes) ==
  IF file.type \notin allowedTypes THEN Invalid("File type not allowed")
  ELSE IF file.size >= maxSizeInBytes THEN Invalid("File too large")
  ELSE Valid

validateFile(file, allowedTypes, maxSizeInBytes) ==
  IF file.type \notin allowedTypes THEN Invalid("File type not allowed")
  ELSE IF file.size > maxSizeInBytes THEN Invalid("File too large")
  ELSE Valid

validateProfilePicture(file) ==
  validateFile(file, ProfilePictureTypes, ProfilePictureMaxSize)

validateUserVideo(file) ==
  validateFile(file, UserVideoTypes, UserVideoMaxSize)

\* The allow-lists and limits validateFile is applied to.
AllowLists ==
  (SUBSET {"image/png", "video/mp4", "application/pdf"})
    \cup {ProfilePictureTypes, UserVideoTypes}

Limits == {0, ProfilePictureMaxSize, UserVideoMaxSize}

NoFile == [name |-> <<>>, type |-> "", size |-> 0]

ValidateIdle ==
  validation = [fn |-> "none", file |-> NoFile, allowedTypes |-> {},
                maxSize |-> 0, result |-> Valid]

\* One call per behaviour: the function is pure.
validateFileCall ==
  /\ validation.fn = "none"
  /\ \E file \in Files, allowedTypes \in AllowLists, maxSize \in Limits :
       validation' = [fn |-> "validateFile", file |-> file,
                      allowedTypes |-> allowedTypes, maxSize |-> maxSize,
                      result |-> validateFile(file, allowedTypes, maxSize)]
  /\ UNCHANGED <<parseVars, storageVars, cacheVars, authVars, rlsVars, remoteVars, appVars, tricksVars>>

validateProfilePictureCall ==
  /\ validation.fn = "none"
  /\ \E file \in Files :
       validation' = [fn |-> "validateProfilePicture", file |-> file,
                      allowedTypes |-> ProfilePictureTypes,
                      maxSize |-> ProfilePictureMaxSize,
                      result |-> validateProfilePicture(file)]
  /\ UNCHANGED <<parseVars, storageVars, cacheVars, authVars, rlsVars, remoteVars, appVars, tricksVars>>

validateUserVideoCall ==
  /\ validation.fn = "none"
  /\ \E file \in Files :
       validation' = [fn |-> "validateUserVideo", file |-> file,
                      allowedTypes |-> UserVideoTypes,
                      maxSize |-> UserVideoMaxSize,
                      result |-> validateUserVideo(file)]
  /\ UNCHANGED <<parseVars, storageVars, cacheVars, authVars, rlsVars, remoteVars, appVars, tricksVars>>

(***************************************************************************)
(* lib/supabaseStorage.ts: uploads and deletes; the storage buckets        *)
(***************************************************************************)
Users == {"u1", "u2"}

\* Date.now() at the clock's n-th reading, as the text it is formatted to.
Now(n) == <<"t0", "t1", "t2", "t3", "t4", "t5", "t6", "t7", "t8", "t9">>[n + 1]

\* storage.buckets rows of the database setup script.
Buckets == {"profile_pictures", "user_videos"}

BucketSizeLimit(bucket) ==
  IF bucket = "profile_pictures" THEN 5242880 ELSE 52428800

BucketMimeTypes(bucket) ==
  IF bucket = "profile_pictures"
  THEN {"image/jpeg", "image/png", "image/gif", "image/webp"}
  ELSE {"video/mp4", "video/webm", "video/quicktime", "video/x-msvideo"}

\* file.name.split('.').pop() || fallback
Extension(file, fallback) ==
  IF file.name[Len(file.name)] = "" THEN fallback ELSE file.name[Len(file.name)]

\* An object name is a sequence of strings: a generated name
\* `${prefix}_${timestamp}.${extension}`, or a name used as given.
GeneratedName(prefix, timestamp, extension) == <<"gen", prefix, timestamp, extension>>
GivenName(name) == <<"given">> \o name

\* `${folder}/${name}`: an object path is the folder and the object name.
JoinPath(folder, name) == <<folder, name>>

\* storage.foldername(name))[1]: the first folder of an object path.
FolderName(path) == path[1]

NoPath == <<"", <<>>>>

\* Mutant: the upload path is not prefixed with the user's folder.
uploadFile_noFolder(bucket, path, file, userId) ==
  [op |-> "upload", bucket |-> bucket, path |-> JoinPath("", path),
   type |-> file.type, size |-> file.size]

\* The request uploadFile sends: supabase.storage.from(bucket).upload(fullPath, file).
uploadFile(bucket, path, file, userId) ==
  [op |-> "upload", bucket |-> bucket, path |-> JoinPath(userId, path),
   type |-> file.type, size |-> file.size]

uploadProfilePicture(file, userId, timestamp) ==
  uploadFile("profile_pictures",
             GeneratedName("profile", timestamp, Extension(file, "jpg")),
             file, userId)

\* customName is Null when the optional argument is left out.
uploadUserVideo(file, userId, customName, timestamp) ==
  uploadFile("user_videos",
             IF customName # Null
             THEN GeneratedName(customName, timestamp, Extension(file, "mp4"))
             ELSE GeneratedName("video", timestamp, Extension(file, "mp4")),
             file, userId)

\* The request deleteFile sends: supabase.storage.from(bucket).remove([path]).
deleteFile(bucket, path) ==
  [op |-> "remove", bucket |-> bucket, path |-> path, type |-> "", size |-> 0]

deleteProfilePicture(userId, filename) ==
  deleteFile("profile_pictures", JoinPath(userId, filename))

deleteUserVideo(userId, filename) ==
  deleteFile("user_videos", JoinPath(userId, filename))

\* What the uploadFile / deleteFile promise resolves with.
UploadOk(path) == [success |-> TRUE, url |-> path, path |-> path, error |-> ""]
UploadFailed(msg) == [success |-> FALSE, url |-> NoPath, path |-> NoPath, error |-> msg]

\* The bucket accepts an upload within its allow-list and size limit; any
\* remote call can also fail, or throw inside the wrapper (which the
\* wrapper turns into a failure result).
BucketAccepts(req) ==
  /\ req.type \in BucketMimeTypes(req.bucket)
  /\ req.size <= BucketSizeLimit(req.bucket)

\* What a call of object storage can do: resolve without an error, resolve
\* with an error that carries a message, or throw.
RemoteOutcomes ==
  {[kind |-> "ok", message |-> "", thrown |-> NoThrow]}
    \cup [kind : {"error"}, message : Messages \cup {"Bucket not found"},
          thrown : {NoThrow}]
    \cup [kind : {"throws"}, message : {""}, thrown : Thrown]

\* What uploadFile resolves with for the request it sent and its outcome.
uploadFileResult(req, outcome) ==
  CASE outcome.kind = "error" -> UploadFailed(outcome.message)
    [] outcome.kind = "throws" ->
         UploadFailed(catchMessage(outcome.thrown, "Unknown error"))
    [] OTHER -> UploadOk(req.path)

\* What deleteFile resolves with.
deleteFileResult(outcome) ==
  CASE outcome.kind = "error" -> UploadFailed(outcome.message)
    [] outcome.kind = "throws" ->
         UploadFailed(catchMessage(outcome.thrown, "Unknown error"))
    [] OTHER -> UploadOk(NoPath)

UploadResults(req) ==
  {uploadFileResult(req, outcome) :
     outcome \in {o \in RemoteOutcomes : o.kind = "ok" => BucketAccepts(req)}}

DeleteResults == {deleteFileResult(outcome) : outcome \in RemoteOutcomes}

\* uploadFile and deleteFile called on their own: the call, what the
\* remote did and what the call resolved with.
NoStorageCall ==
  [fn |-> "none", req |-> deleteFile("", NoPath),
   outcome |-> [kind |-> "ok", message |-> "", thrown |-> NoThrow],
   result |-> UploadOk(NoPath)]

RemoteIdle == storageCall = NoStorageCall

uploadFileCall ==
  /\ storageCall.fn = "none"
  /\ apiReply = IdleReply
  /\ \E bucket \in Buckets, userId \in Users, outcome \in RemoteOutcomes :
       LET file == [name |-> <<"cat", "png">>, type |-> "image/png", size |-> 1]
           req == uploadFile(bucket, GivenName(file.name), file, userId)
       IN storageCall' = [fn |-> "uploadFile", req |-> req, outcome |-> outcome,
                          result |-> uploadFileResult(req, outcome)]
  /\ UNCHANGED <<parseVars, validateVars, storageVars, cacheVars, authVars, rlsVars,
                 appVars, tricksVars>>

deleteFileCall ==
  /\ storageCall.fn = "none"
  /\ apiReply = IdleReply
  /\ \E bucket \in Buckets, userId \in Users, outcome \in RemoteOutcomes :
       LET req == deleteFile(bucket, JoinPath(userId, GivenName(<<"cat", "png">>)))
       IN storageCall' = [fn |-> "deleteFile", req |-> req, outcome |-> outcome,
                          result |-> deleteFileResult(outcome)]
  /\ UNCHANGED <<parseVars, validateVars, storageVars, cacheVars, authVars, rlsVars,
                 appVars, tricksVars>>

(***************************************************************************)
(* components/GalleryPage.tsx, components/ProfilePage.tsx: the handlers    *)
(*                                                                         *)
(* The two pages are routes of App.tsx: one is mounted at a time, and a    *)
(* page that unmounts drops its state and what it awaited.  A handler is   *)
(* started when no other is awaiting its request.                          *)
(***************************************************************************)
\* The most readings of Date.now() by the upload wrappers and handlers.
MaxClock == 2

\* The files offered to the upload handlers.
UploadFiles ==
  [name : {<<"cat", "png">>, <<"odd", "">>},
   type : {"image/png", "video/mp4", "application/pdf"},
   size : {ProfilePictureMaxSize, ProfilePictureMaxSize + 1,
           UserVideoMaxSize + 1}]

NoRequest ==
  [req |-> deleteFile("", NoPath), signedIn |-> Null,
   checkedTypes |-> {}, checkedMax |-> 0]

Idle == [handler |-> "none", file |-> NoFile, uploadType |-> Null, item |-> Null]

\* The mock media of GalleryPage's mount effect.
MockMedia ==
  <<[id |-> "1", url |-> <<"via.placeholder.com", <<"given", "Sample+Image">>>>,
     filename |-> <<"sample_image", "jpg">>, type |-> "image"],
    [id |-> "2", url |-> <<"via.placeholder.com", <<"given", "Sample+Video">>>>,
     filename |-> <<"sample_video", "mp4">>, type |-> "video"]>>

NoErrors == [upload |-> "", profilePicture |-> ""]

\* A page as just mounted, nothing in flight.
Mounted ==
  /\ uploadType = Null
  /\ errors = NoErrors
  /\ uploadStatus = "idle"
  /\ profilePicture = NoPath
  /\ storageRequest = NoRequest
  /\ pending = Idle
  /\ mediaItems = MockMedia
  /\ selectedMedia = Null

StorageIdle ==
  /\ user \in Users
  /\ page \in {"gallery", "profile"}
  /\ clock = 0
  /\ Mounted

\* The page state after an unmount and a mount.
Remount ==
  /\ uploadType' = Null
  /\ errors' = NoErrors
  /\ uploadStatus' = "idle"
  /\ profilePicture' = NoPath
  /\ storageRequest' = NoRequest
  /\ pending' = Idle
  /\ mediaItems' = MockMedia
  /\ selectedMedia' = Null

\* AuthContext's setUser: another user, or none.  With no user the routes
\* render the auth page and the page unmounts.
authUserChanges ==
  /\ \E u \in (Users \cup {Null}) \ {user} :
       /\ user' = u
       /\ IF u = Null
          THEN Remount
          ELSE UNCHANGED <<uploadType, errors, uploadStatus, profilePicture,
                           storageRequest, pending, mediaItems, selectedMedia>>
  /\ UNCHANGED <<page, clock, parseVars, validateVars, cacheVars, authVars, rlsVars, remoteVars, appVars, tricksVars>>

\* The routes /gallery and /profile: going from one page to the other.
navigatePage ==
  /\ user # Null
  /\ page' = IF page = "gallery" THEN "profile" ELSE "gallery"
  /\ Remount
  /\ UNCHANGED <<user, clock, parseVars, validateVars, cacheVars, authVars, rlsVars, remoteVars, appVars, tricksVars>>

openUploadModal ==
  /\ user # Null /\ page = "gallery"
  /\ \E type \in {"image", "video"} : uploadType' = type
  /\ errors' = NoErrors
  /\ uploadStatus' = "idle"
  /\ UNCHANGED <<user, page, clock, profilePicture, storageRequest, pending,
                 mediaItems, selectedMedia, parseVars, validateVars, cacheVars, authVars, rlsVars, remoteVars, appVars, tricksVars>>

closeUploadModal ==
  /\ user # Null /\ page = "gallery"
  /\ uploadType # Null
  /\ uploadType' = Null
  /\ errors' = NoErrors
  /\ uploadStatus' = "idle"
  /\ UNCHANGED <<user, page, clock, profilePicture, storageRequest, pending,
                 mediaItems, selectedMedia, parseVars, validateVars, cacheVars, authVars, rlsVars, remoteVars, appVars, tricksVars>>

setSelectedMedia ==
  /\ user # Null /\ page = "gallery"
  /\ \E id \in {mediaItems[i].id : i \in 1..Len(mediaItems)} \cup {Null} :
       /\ id # selectedMedia
       /\ selectedMedia' = id
  /\ UNCHANGED <<user, page, clock, uploadType, errors, uploadStatus,
                 profilePicture, storageRequest, pending, mediaItems,
                 parseVars, validateVars, cacheVars, authVars, rlsVars, remoteVars, appVars, tricksVars>>

\* GalleryPage.handleFileUpload up to its await: the file is validated by
\* the upload type and, when valid, sent with uploadUserVideo.
handleFileUpload ==
  /\ user # Null /\ page = "gallery"
  /\ uploadType # Null
  /\ pending = Idle
  /\ clock < MaxClock
  /\ \E file \in UploadFiles :
       LET check == IF uploadType = "image"
                    THEN validateProfilePicture(file)
                    ELSE validateUserVideo(file)
       IN IF ~check.valid
          THEN /\ errors' = [errors EXCEPT !.upload = check.error]
               /\ UNCHANGED <<uploadStatus, storageRequest, pending, clock>>
          ELSE /\ errors' = [errors EXCEPT !.upload = ""]
               /\ uploadStatus' = "uploading"
               /\ storageRequest' =
                    [req |-> uploadUserVideo(file, user, uploadType, Now(clock)),
                     signedIn |-> user,
                     checkedTypes |-> IF uploadType = "image"
                                      THEN ProfilePictureTypes ELSE UserVideoTypes,
                     checkedMax |-> IF uploadType = "image"
                                    THEN ProfilePictureMaxSize ELSE UserVideoMaxSize]
               /\ pending' = [handler |-> "handleFileUpload", file |-> file,
                              uploadType |-> uploadType, item |-> Null]
               /\ clock' = clock + 1
  /\ UNCHANGED <<user, page, uploadType, profilePicture, mediaItems,
                 selectedMedia, parseVars, validateVars, cacheVars, authVars, rlsVars, remoteVars, appVars, tricksVars>>

\* handleFileUpload after its await.
handleFileUploadDone ==
  /\ pending.handler = "handleFileUpload"
  /\ \E result \in UploadResults(storageRequest.req) :
       IF result.success /\ result.url # NoPath
       THEN /\ mediaItems' =
                 <<[id |-> Now(clock), url |-> result.url,
                    filename |-> pending.file.name,
                    type |-> pending.uploadType]>> \o mediaItems
            /\ uploadStatus' = "success"
            /\ uploadType' = Null
            /\ clock' = clock + 1
            /\ UNCHANGED errors
       ELSE /\ errors' = [errors EXCEPT !.upload =
                             IF result.error # "" THEN result.error
                             ELSE "Upload failed"]
            /\ uploadStatus' = "error"
            /\ UNCHANGED <<mediaItems, uploadType, clock>>
  /\ pending' = Idle
  /\ storageRequest' = NoRequest
  /\ UNCHANGED <<user, page, profilePicture, selectedMedia, parseVars,
                 validateVars, cacheVars, authVars, rlsVars, remoteVars, appVars, tricksVars>>

\* setTimeout(() => setUploadStatus('idle'), 2000) after a successful upload.
uploadStatusTimer ==
  /\ uploadStatus = "success"
  /\ uploadStatus' = "idle"
  /\ UNCHANGED <<user, page, clock, uploadType, errors, profilePicture,
                 storageRequest, pending, mediaItems, selectedMedia,
                 parseVars, validateVars, cacheVars, authVars, rlsVars, remoteVars, appVars, tricksVars>>

\* ProfilePage.handleProfilePictureChange up to its await.
handleProfilePictureChange ==
  /\ user # Null /\ page = "profile"
  /\ pending = Idle
  /\ clock < MaxClock
  /\ \E file \in UploadFiles :
       LET check == validateProfilePicture(file)
       IN IF ~check.valid
          THEN /\ errors' = [errors EXCEPT !.profilePicture = check.error]
               /\ UNCHANGED <<uploadStatus, storageRequest, pending, clock>>
          ELSE /\ errors' = [errors EXCEPT !.profilePicture = ""]
               /\ uploadStatus' = "uploading"
               /\ storageRequest' =
                    [req |-> uploadProfilePicture(file, user, Now(clock)),
                     signedIn |-> user,
                     checkedTypes |-> ProfilePictureTypes,
                     checkedMax |-> ProfilePictureMaxSize]
               /\ pending' = [handler |-> "handleProfilePictureChange",
                              file |-> file, uploadType |-> Null, item |-> Null]
               /\ clock' = clock + 1
  /\ UNCHANGED <<user, page, uploadType, profilePicture, mediaItems,
                 selectedMedia, parseVars, validateVars, cacheVars, authVars, rlsVars, remoteVars, appVars, tricksVars>>

\* handleProfilePictureChange after its await.
handleProfilePictureChangeDone ==
  /\ pending.handler = "handleProfilePictureChange"
  /\ \E result \in UploadResults(storageRequest.req) :
       IF result.success /\ result.url # NoPath
       THEN /\ profilePicture' = result.url
            /\ uploadStatus' = "success"
            /\ UNCHANGED errors
       ELSE /\ errors' = [errors EXCEPT !.profilePicture =
                             IF result.error # "" THEN result.error
                             ELSE "Upload failed"]
            /\ uploadStatus' = "error"
            /\ UNCHANGED profilePicture
  /\ pending' = Idle
  /\ storageRequest' = NoRequest
  /\ UNCHANGED <<user, page, clock, uploadType, mediaItems, selectedMedia,
                 parseVars, validateVars, cacheVars, authVars, rlsVars, remoteVars, appVars, tricksVars>>

\* GalleryPage.handleDeleteMedia up to its await.
handleDeleteMedia ==
  /\ user # Null /\ page = "gallery"
  /\ pending = Idle
  /\ \E i \in 1..Len(mediaItems) :
       /\ storageRequest' =
            [req |-> deleteUserVideo(user, GivenName(mediaItems[i].filename)),
             signedIn |-> user, checkedTypes |-> {}, checkedMax |-> 0]
       /\ pending' = [handler |-> "handleDeleteMedia", file |-> NoFile,
                      uploadType |-> Null, item |-> mediaItems[i].id]
  /\ UNCHANGED <<user, page, clock, uploadType, errors, uploadStatus,
                 profilePicture, mediaItems, selectedMedia, parseVars,
                 validateVars, cacheVars, authVars, rlsVars, remoteVars, appVars, tricksVars>>

\* seq without the items whose id is id (Array.prototype.filter)
RECURSIVE FilterOutId(_, _)
FilterOutId(seq, id) ==
  IF seq = <<>> THEN <<>>
  ELSE IF Head(seq).id = id THEN FilterOutId(Tail(seq), id)
  ELSE <<Head(seq)>> \o FilterOutId(Tail(seq), id)

\* handleDeleteMedia after its await.
handleDeleteMediaDone ==
  /\ pending.handler = "handleDeleteMedia"
  /\ \E result \in DeleteResults :
       IF result.success
       THEN /\ mediaItems' = FilterOutId(mediaItems, pending.item)
            /\ selectedMedia' =
                 IF selectedMedia = pending.item THEN Null ELSE selectedMedia
       ELSE UNCHANGED <<mediaItems, selectedMedia>>
  /\ pending' = Idle
  /\ storageRequest' = NoRequest
  /\ UNCHANGED <<user, page, clock, uploadType, errors, uploadStatus,
                 profilePicture, parseVars, validateVars, cacheVars, authVars, rlsVars, remoteVars, appVars, tricksVars>>

(***************************************************************************)
(* lib/storage.ts: the session cache in localStorage                       *)
(*                                                                         *)
(* An item of localStorage is a text: absent, the JSON text of a value     *)
(* (JSON.stringify) or the decimal text of a number (toString).            *)
(***************************************************************************)
STORAGE_KEYS == {"USER", "USER_PROFILE", "SESSION", "LAST_SYNC"}

\* A row of the users table as the app holds it (lib/supabase.ts, User):
\* its id, whether it is the temporary profile of createUserProfile, and
\* its bio (name, email and picture are not told apart).
NoProfile == [id |-> Null, temp |-> FALSE, bio |-> ""]
DbProfile(u) == [id |-> u, temp |-> FALSE, bio |-> ""]

Absent == [kind |-> "absent", text |-> "", num |-> 0]

\* JSON.stringify(value) and JSON.parse(text) of a plain value.
JsonText(value) == [kind |-> "json", text |-> value, num |-> 0]
safeJsonParse(item, fallback) ==
  IF item.kind = "json" THEN item.text ELSE fallback

\* n.toString() and parseInt(text, 10)
DecimalText(n) == [kind |-> "dec", text |-> "", num |-> n]
parseInt(item) == item.num

setItem(store, key, item) == [store EXCEPT ![key] = item]
removeItem(store, key) == [store EXCEPT ![key] = Absent]

twentyFourHours == 24 * 60 * 60 * 1000

\* Mutant: data of exactly 24 hours counts as expired.
isExpired_inclusive(timestamp, t) == t - timestamp >= twentyFourHours

\* isExpired(timestamp) when Date.now() is t.
isExpired(timestamp, t) == t - timestamp > twentyFourHours

clearUser(store) == removeItem(removeItem(store, "USER"), "LAST_SYNC")
clearUserProfile(store) == removeItem(store, "USER_PROFILE")
clearSession(store) == removeItem(store, "SESSION")
clearAll(store) == [key \in STORAGE_KEYS |-> Absent]

saveUser(store, u, t) ==
  IF u # Null
  THEN setItem(setItem(store, "USER", JsonText(u)), "LAST_SYNC", DecimalText(t))
  ELSE removeItem(removeItem(store, "USER"), "LAST_SYNC")

saveUserProfile(store, profile) ==
  IF profile # NoProfile
  THEN setItem(store, "USER_PROFILE", JsonText(profile))
  ELSE removeItem(store, "USER_PROFILE")

saveSession(store, session, t) ==
  setItem(setItem(store, "SESSION", JsonText(session)), "LAST_SYNC", DecimalText(t))

refreshStoredData(store, t) == setItem(store, "LAST_SYNC", DecimalText(t))

\* A getter gives its value and the store it leaves behind.
Got(value, store) == [value |-> value, store |-> store]

getUser(store, t) ==
  IF store["USER"] = Absent \/ store["LAST_SYNC"] = Absent THEN Got(Null, store)
  ELSE IF isExpired(parseInt(store["LAST_SYNC"]), t) THEN Got(Null, clearUser(store))
  ELSE Got(safeJsonParse(store["USER"], Null), store)

getUserProfile(store, t) ==
  IF store["USER_PROFILE"] = Absent \/ store["LAST_SYNC"] = Absent
  THEN Got(NoProfile, store)
  ELSE IF isExpired(parseInt(store["LAST_SYNC"]), t)
  THEN Got(NoProfile, clearUserProfile(store))
  ELSE Got(safeJsonParse(store["USER_PROFILE"], NoProfile), store)

getSession(store, t) ==
  IF store["SESSION"] = Absent \/ store["LAST_SYNC"] = Absent THEN Got(Null, store)
  ELSE IF isExpired(parseInt(store["LAST_SYNC"]), t) THEN Got(Null, clearSession(store))
  ELSE Got(safeJsonParse(store["SESSION"], Null), store)

\* saveAuthState({user, userProfile, lastSync})
saveAuthState(store, u, profile, lastSync, t) ==
  setItem(saveUserProfile(saveUser(store, u, t), profile),
          "LAST_SYNC", DecimalText(lastSync))

\* getAuthState(): user, userProfile and the store left behind (lastSync is
\* not used by its caller).
getAuthState(store, t) ==
  LET u == getUser(store, t)
      profile == getUserProfile(u.store, t)
  IN [user |-> u.value, userProfile |-> profile.value, store |-> profile.store]

hasValidStoredAuth(store, t) ==
  LET u == getUser(store, t)
  IN IF u.value = Null \/ u.store["LAST_SYNC"] = Absent THEN Got(FALSE, u.store)
     ELSE Got(~isExpired(parseInt(u.store["LAST_SYNC"]), t), u.store)

\* The values the cache is given: users, profiles and sessions by owner.
CachedUsers == Users
CachedProfiles == {DbProfile(u) : u \in Users}
CachedSessions == {"session-u1"}

\* The days the clock of the cache runs for.
MaxDays == 2

NoCall == [fn |-> "none", stored |-> Absent, lastSync |-> Absent, at |-> 0,
           value |-> Null, profile |-> NoProfile, valid |-> FALSE]

CacheIdle ==
  /\ localStorage = [key \in STORAGE_KEYS |-> Absent]
  /\ now = 0
  /\ ret = NoCall

\* The times the clock shows: each day's boundary, a millisecond before it
\* and a millisecond after it.
TimePoints ==
  {t \in {k * twentyFourHours + e : k \in 0..MaxDays, e \in {-1, 0, 1}} : t >= 0}

\* Time passes.  (ret holds the call just made: any other step resets it.)
Tick ==
  /\ \E t \in TimePoints : t > now /\ now' = t
  /\ ret' = NoCall
  /\ UNCHANGED <<localStorage, parseVars, validateVars, storageVars, authVars, rlsVars, remoteVars, appVars, tricksVars>>

saveUserCall ==
  /\ \E u \in CachedUsers \cup {Null} : localStorage' = saveUser(localStorage, u, now)
  /\ ret' = NoCall
  /\ UNCHANGED <<now, parseVars, validateVars, storageVars, authVars, rlsVars, remoteVars, appVars, tricksVars>>

saveUserProfileCall ==
  /\ \E profile \in CachedProfiles \cup {NoProfile} :
       localStorage' = saveUserProfile(localStorage, profile)
  /\ ret' = NoCall
  /\ UNCHANGED <<now, parseVars, validateVars, storageVars, authVars, rlsVars, remoteVars, appVars, tricksVars>>

saveSessionCall ==
  /\ \E session \in CachedSessions :
       localStorage' = saveSession(localStorage, session, now)
  /\ ret' = NoCall
  /\ UNCHANGED <<now, parseVars, validateVars, storageVars, authVars, rlsVars, remoteVars, appVars, tricksVars>>

refreshStoredDataCall ==
  /\ localStorage' = refreshStoredData(localStorage, now)
  /\ ret' = NoCall
  /\ UNCHANGED <<now, parseVars, validateVars, storageVars, authVars, rlsVars, remoteVars, appVars, tricksVars>>

clearAllCall ==
  /\ localStorage' = clearAll(localStorage)
  /\ ret' = NoCall
  /\ UNCHANGED <<now, parseVars, validateVars, storageVars, authVars, rlsVars, remoteVars, appVars, tricksVars>>

\* The record of a getter's call: what was stored, when, and what it gave.
Called(fn, key, value, profile, valid) ==
  [fn |-> fn, stored |-> localStorage[key], lastSync |-> localStorage["LAST_SYNC"],
   at |-> now, value |-> value, profile |-> profile, valid |-> valid]

getUserCall ==
  /\ ret' = Called("getUser", "USER", getUser(localStorage, now).value,
                 NoProfile, FALSE)
  /\ localStorage' = getUser(localStorage, now).store
  /\ UNCHANGED <<now, parseVars, validateVars, storageVars, authVars, rlsVars, remoteVars, appVars, tricksVars>>

getUserProfileCall ==
  /\ ret' = Called("getUserProfile", "USER_PROFILE", Null,
                 getUserProfile(localStorage, now).value, FALSE)
  /\ localStorage' = getUserProfile(localStorage, now).store
  /\ UNCHANGED <<now, parseVars, validateVars, storageVars, authVars, rlsVars, remoteVars, appVars, tricksVars>>

getSessionCall ==
  /\ ret' = Called("getSession", "SESSION", getSession(localStorage, now).value,
                 NoProfile, FALSE)
  /\ localStorage' = getSession(localStorage, now).store
  /\ UNCHANGED <<now, parseVars, validateVars, storageVars, authVars, rlsVars, remoteVars, appVars, tricksVars>>

hasValidStoredAuthCall ==
  /\ ret' = Called("hasValidStoredAuth", "USER", Null, NoProfile,
                 hasValidStoredAuth(localStorage, now).value)
  /\ localStorage' = hasValidStoredAuth(localStorage, now).store
  /\ UNCHANGED <<now, parseVars, validateVars, storageVars, authVars, rlsVars, remoteVars, appVars, tricksVars>>

(***************************************************************************)
(* contexts/AuthContext.tsx: AuthProvider                                  *)
(***************************************************************************)
\* The asynchronous work of the provider outstanding at one time:
\* undelivered auth-change events, profile flows, a profile update and a
\* sign-out.
MaxInFlight == 2

\* Mutant: no temporary profile is made.
TempProfile_none(userId) == [id |-> Null, temp |-> FALSE, bio |-> ""]

\* The temporary profile createUserProfile makes for userId.
TempProfile(userId) == [id |-> userId, temp |-> TRUE, bio |-> ""]

\* Mutant: the updates alone, the fields of the old profile dropped.
MergeProfile_updatesOnly(profile, bio) ==
  [id |-> Null, temp |-> FALSE, bio |-> bio]

\* { ...userProfile, ...updates } for updates of the bio.
MergeProfile(profile, bio) == [profile EXCEPT !.bio = bio]
Bios == {"edited"}

\* A fetchUserProfile / createUserProfile flow: the userId it was called
\* with, the request or timer it waits for and createUserProfile's
\* retryCount; with them the inserts it has sent so far, the error its last
\* insert got and the delay of the timer it waits for.
Flow(userId, stage, retryCount) ==
  [userId |-> userId, stage |-> stage, retryCount |-> retryCount,
   inserts |-> 0, error |-> "", delay |-> 0]

\* setTimeout(..., 2000)
retryDelay == 2000

\* Mutant: every failed insert is retried, up to three times.
ShouldRetry_anyError(outcome, retryCount) ==
  outcome \in {"permission", "error"} /\ retryCount < 3

\* (error.code === '42501' || error.message.includes('permission')) &&
\* retryCount < 2
ShouldRetry(outcome, retryCount) == outcome = "permission" /\ retryCount < 2

\* No insert has just resolved.
NoInsert == [userId |-> Null, retryCount |-> 0, outcome |-> ""]

\* fetchUserProfile(userId) up to its await: the select is sent.  (Flows of
\* one user waiting at one place are held once.)
fetchUserProfile(fs, userId) == fs \cup {Flow(userId, "select", 0)}

NoUpdate == [userId |-> Null, base |-> NoProfile, bio |-> ""]

InFlight ==
  Len(events) + Cardinality(flows)
    + (IF update = NoUpdate THEN 0 ELSE 1)
    + (IF signOutPc = "idle" THEN 0 ELSE 1)
CanStart == InFlight < MaxInFlight

\* The provider with its initialization over and nobody signed in.
AuthIdle ==
  /\ userProfile = NoProfile
  /\ loading = FALSE
  /\ error = ""
  /\ isInitialized = TRUE
  /\ maxTimeout = FALSE
  /\ initPc = "done"
  /\ sessionCheck = "none"
  /\ remote = Null
  /\ events = <<>>
  /\ flows = {}
  /\ update = NoUpdate
  /\ signOutPc = "idle"
  /\ signedOut = FALSE
  /\ inserted = NoInsert

\* What the provider's functions leave alone; AuthFrame when the app's
\* location is left alone too.
ProviderFrame ==
  UNCHANGED <<parseVars, validateVars, pageVars, now, ret, rlsVars, remoteVars,
              tricksVars>>

AuthFrame == ProviderFrame /\ UNCHANGED appVars

\* Mutant: the end of initialization leaves loading as it is.
FinishLoading_stuck ==
  IF ~isInitialized
  THEN isInitialized' = TRUE /\ maxTimeout' = FALSE /\ UNCHANGED loading
  ELSE UNCHANGED <<loading, isInitialized, maxTimeout>>

\* if (!isInitialized) { setLoading(false); isInitialized = true;
\* clearTimeout(maxTimeout) }
FinishLoading ==
  IF ~isInitialized
  THEN loading' = FALSE /\ isInitialized' = TRUE /\ maxTimeout' = FALSE
  ELSE UNCHANGED <<loading, isInitialized, maxTimeout>>

\* The mount effect up to initializeAuth's first await: the timer is set,
\* a valid cache is restored, getSession is called and the listener is
\* subscribed (on which the client may emit the initial session).
initializeAuth ==
  /\ initPc = "start"
  /\ LET valid == hasValidStoredAuth(localStorage, now)
         storedAuth == getAuthState(valid.store, now)
     IN IF valid.value
        THEN /\ user' = storedAuth.user
             /\ userProfile' = storedAuth.userProfile
             /\ localStorage' = storedAuth.store
             /\ loading' = FALSE
             /\ isInitialized' = TRUE
             /\ maxTimeout' = FALSE
        ELSE /\ localStorage' = valid.store
             /\ maxTimeout' = TRUE
             /\ UNCHANGED <<user, userProfile, loading, isInitialized>>
  /\ initPc' = "getSession"
  /\ \E initial \in {<<>>, <<remote>>} : events' = initial
  /\ UNCHANGED <<error, sessionCheck, remote, flows, update, signOutPc, signedOut>>
  /\ inserted' = NoInsert
  /\ AuthFrame

\* await supabase.auth.getSession() resolves: with the session, with an
\* error, or by throwing.
getSessionResolves ==
  /\ initPc = "getSession"
  /\ \E outcome \in {"session", "error", "throws"} :
       IF outcome = "session" /\ remote # Null
       THEN /\ CanStart
            /\ sessionCheck' = "session"
            /\ localStorage' = saveUser(localStorage, remote, now)
            /\ user' = remote
            /\ flows' = fetchUserProfile(flows, remote)
            /\ UNCHANGED <<userProfile, error>>
       ELSE /\ sessionCheck' = IF outcome = "session" THEN "none" ELSE outcome
            /\ error' = IF outcome = "session" THEN error ELSE outcome
            /\ localStorage' = clearAll(localStorage)
            /\ user' = Null
            /\ userProfile' = NoProfile
            /\ UNCHANGED flows
  /\ FinishLoading
  /\ initPc' = "done"
  /\ UNCHANGED <<remote, events, update, signOutPc, signedOut>>
  /\ inserted' = NoInsert
  /\ AuthFrame

\* The 10-second timer fires.
maxTimeoutFires ==
  /\ maxTimeout
  /\ maxTimeout' = FALSE
  /\ IF ~isInitialized
     THEN loading' = FALSE /\ isInitialized' = TRUE
     ELSE UNCHANGED <<loading, isInitialized>>
  /\ UNCHANGED <<user, userProfile, localStorage, error, initPc, sessionCheck,
                 remote, events, flows, update, signOutPc, signedOut>>
  /\ inserted' = NoInsert
  /\ AuthFrame

\* Mutant: the listener handles every event.
handlesAuthChange_always(initialized) == TRUE

\* if (isInitialized) { ... }
handlesAuthChange(initialized) == initialized

\* The listener of onAuthStateChange is called with the oldest event.
onAuthStateChange ==
  /\ initPc # "start"
  /\ events # <<>>
  /\ LET session == Head(events)
     IN IF ~handlesAuthChange(isInitialized)
        THEN UNCHANGED <<user, userProfile, localStorage, flows>>
        ELSE IF session # Null
        THEN /\ localStorage' = saveUser(localStorage, session, now)
             /\ user' = session
             /\ flows' = fetchUserProfile(flows, session)
             /\ UNCHANGED userProfile
        ELSE /\ localStorage' = clearAll(localStorage)
             /\ user' = Null
             /\ userProfile' = NoProfile
             /\ UNCHANGED flows
  /\ events' = Tail(events)
  /\ UNCHANGED <<loading, error, isInitialized, maxTimeout, initPc,
                 sessionCheck, remote, update, signOutPc, signedOut>>
  /\ inserted' = NoInsert
  /\ AuthFrame

\* signIn, accepted: the client holds the session of u and emits the event.
\* (A rejected sign-in changes nothing.)
signInWithPassword ==
  /\ ~loading
  /\ CanStart
  /\ \E u \in Users :
       /\ remote' = u
       /\ events' = Append(events, u)
  /\ signedOut' = FALSE
  /\ UNCHANGED <<user, userProfile, localStorage, loading, error, isInitialized,
                 maxTimeout, initPc, sessionCheck, flows, update, signOutPc>>
  /\ inserted' = NoInsert
  /\ ProviderFrame

\* signIn called with the location left alone.
signIn == signInWithPassword /\ UNCHANGED appVars

\* The session ends outside the app (it expires and cannot be refreshed):
\* the client drops it and emits the event.
sessionEnds ==
  /\ initPc # "start"
  /\ remote # Null
  /\ CanStart
  /\ remote' = Null
  /\ events' = Append(events, Null)
  /\ UNCHANGED <<user, userProfile, localStorage, loading, error, isInitialized,
                 maxTimeout, initPc, sessionCheck, flows, update, signOutPc,
                 signedOut>>
  /\ inserted' = NoInsert
  /\ AuthFrame
\* setUserProfile(profile); saveUserProfile(profile)
SetAndSaveProfile(profile) ==
  /\ userProfile' = profile
  /\ localStorage' = saveUserProfile(localStorage, profile)

AuthFlowFrame ==
  /\ UNCHANGED <<user, loading, error, isInitialized, maxTimeout, initPc,
                 sessionCheck, remote, events, update, signOutPc, signedOut>>
  /\ AuthFrame

\* fetchUserProfile after its await: the select on users resolves with the
\* row, with PGRST116 (no row), with another error, or by throwing.
fetchUserProfileResolves ==
  /\ \E f \in flows :
       /\ f.stage = "select"
       /\ \E outcome \in {"data", "PGRST116", "error", "throws"} :
            CASE outcome = "data" ->
                   /\ SetAndSaveProfile(DbProfile(f.userId))
                   /\ flows' = flows \ {f}
              [] outcome = "PGRST116" ->
                   /\ flows' = (flows \ {f}) \cup {Flow(f.userId, "getUser", 0)}
                   /\ UNCHANGED <<userProfile, localStorage>>
              [] OTHER ->
                   /\ flows' = flows \ {f}
                   /\ UNCHANGED <<userProfile, localStorage>>
  /\ inserted' = NoInsert
  /\ AuthFlowFrame

\* createUserProfile after await supabase.auth.getUser(): with the user of
\* the session the insert is sent; with an error or no user it returns; a
\* throw ends in the catch block, whose authUser is not in scope.
createUserProfileGotUser ==
  /\ \E f \in flows :
       /\ f.stage = "getUser"
       /\ \E outcome \in {"user", "error", "throws"} :
            IF outcome = "user" /\ remote # Null
            THEN flows' = (flows \ {f}) \cup
                            {[Flow(f.userId, "insert", f.retryCount)
                                EXCEPT !.inserts = f.inserts + 1]}
            ELSE flows' = flows \ {f}
  /\ UNCHANGED <<userProfile, localStorage>>
  /\ inserted' = NoInsert
  /\ AuthFlowFrame

\* createUserProfile after the insert resolves.
createUserProfileInserted ==
  /\ \E f \in flows :
       /\ f.stage = "insert"
       /\ \E outcome \in {"data", "permission", "error", "throws"} :
            /\ inserted' = [userId |-> f.userId, retryCount |-> f.retryCount,
                            outcome |-> outcome]
            /\ CASE outcome = "data" ->
                     /\ SetAndSaveProfile(DbProfile(f.userId))
                     /\ flows' = flows \ {f}
                [] outcome = "throws" ->
                     /\ flows' = flows \ {f}
                     /\ UNCHANGED <<userProfile, localStorage>>
                [] ShouldRetry(outcome, f.retryCount) ->
                     /\ flows' = (flows \ {f}) \cup
                                   {[Flow(f.userId, "timer", f.retryCount)
                                       EXCEPT !.inserts = f.inserts,
                                              !.error = outcome,
                                              !.delay = retryDelay]}
                     /\ UNCHANGED <<userProfile, localStorage>>
                [] OTHER ->
                     /\ SetAndSaveProfile(TempProfile(f.userId))
                     /\ flows' = flows \ {f}
  /\ AuthFlowFrame

\* The 2-second retry timer fires: createUserProfile(userId, retryCount + 1)
createUserProfileRetry ==
  /\ \E f \in flows :
       /\ f.stage = "timer"
       /\ flows' = (flows \ {f}) \cup
                     {[Flow(f.userId, "getUser", f.retryCount + 1)
                         EXCEPT !.inserts = f.inserts]}
  /\ UNCHANGED <<userProfile, localStorage>>
  /\ inserted' = NoInsert
  /\ AuthFlowFrame

\* updateProfile(updates) up to its await, called in a render whose user is
\* u and whose userProfile is profile: the error it returns at once, or the
\* update it sends.
updateProfileCall(u, profile, bio) ==
  IF u = Null
  THEN [error |-> "No user logged in", update |-> NoUpdate]
  ELSE [error |-> "", update |-> [userId |-> u, base |-> profile, bio |-> bio]]

\* The remote update gives no error, gives an error, or throws.
UpdateOutcomes == {"ok", "error", "throws"}

\* The profile updateProfile sets and saves after its await, NoProfile for
\* none: if (!error && userProfile) { ...userProfile, ...updates }
updatedProfile(base, bio, outcome) ==
  IF outcome = "ok" /\ base # NoProfile THEN MergeProfile(base, bio)
  ELSE NoProfile

\* updateProfile(updates) from the profile page, up to its await: the
\* update is sent for the user of the render it was called in.
updateProfile ==
  /\ ~loading
  /\ user # Null
  /\ update = NoUpdate
  /\ CanStart
  /\ \E bio \in Bios : update' = updateProfileCall(user, userProfile, bio).update
  /\ UNCHANGED <<user, userProfile, localStorage, loading, error, isInitialized,
                 maxTimeout, initPc, sessionCheck, remote, events, flows,
                 signOutPc, signedOut>>
  /\ inserted' = NoInsert
  /\ AuthFrame

\* updateProfile after its await.
updateProfileResolves ==
  /\ update # NoUpdate
  /\ \E outcome \in UpdateOutcomes :
       LET profile == updatedProfile(update.base, update.bio, outcome)
       IN IF profile # NoProfile
          THEN SetAndSaveProfile(profile)
          ELSE UNCHANGED <<userProfile, localStorage>>
  /\ update' = NoUpdate
  /\ UNCHANGED <<user, loading, error, isInitialized, maxTimeout, initPc,
                 sessionCheck, remote, events, flows, signOutPc, signedOut>>
  /\ inserted' = NoInsert
  /\ AuthFrame

\* signOut from the profile page, up to its await.
signOut ==
  /\ ~loading
  /\ user # Null
  /\ signOutPc = "idle"
  /\ CanStart
  /\ signOutPc' = "awaiting"
  /\ UNCHANGED <<user, userProfile, localStorage, loading, error, isInitialized,
                 maxTimeout, initPc, sessionCheck, remote, events, flows,
                 update, signedOut>>
  /\ inserted' = NoInsert
  /\ AuthFrame

\* signOut after await supabase.auth.signOut(): the client has dropped the
\* session and emitted the event; clearAll() runs.
signOutCleared ==
  /\ signOutPc = "awaiting"
  /\ remote' = Null
  /\ events' = Append(events, Null)
  /\ localStorage' = clearAll(localStorage)
  /\ signOutPc' = "idle"
  /\ signedOut' = TRUE
  /\ UNCHANGED <<user, userProfile, loading, error, isInitialized, maxTimeout,
                 initPc, sessionCheck, flows, update>>
  /\ inserted' = NoInsert
  /\ ProviderFrame

\* signOut resolving with the location left alone.
signOutResolves == signOutCleared /\ UNCHANGED appVars

(***************************************************************************)
(* App.tsx: AppContent, its routes and redirect effect; the auth page's    *)
(* handleSubmit; the pages' navigation buttons                             *)
(***************************************************************************)
\* <Route path=...>
Paths == {"/", "/auth", "/magic-tricks", "/profile", "/gallery"}

\* Mutant: the routes render their pages whether or not a user is signed in.
Rendered_unguarded(path, u, isLoading) ==
  IF isLoading THEN "Loading"
  ELSE CASE path = "/" -> "Landing"
         [] path = "/auth" -> "MagicTricksPage"
         [] path = "/magic-tricks" -> "MagicTricksPage"
         [] path = "/profile" -> "ProfilePage"
         [] path = "/gallery" -> "GalleryPage"

\* What AppContent returns: the loading screen while loading, and otherwise
\* the element of the route that matches the path.
Rendered(path, u, isLoading) ==
  IF isLoading THEN "Loading"
  ELSE CASE path = "/" -> "Landing"
         [] path = "/auth" -> IF u # Null THEN "MagicTricksPage" ELSE "AuthPage"
         [] path = "/magic-tricks" ->
              IF u # Null THEN "MagicTricksPage" ELSE "AuthPage"
         [] path = "/profile" -> IF u # Null THEN "ProfilePage" ELSE "AuthPage"
         [] path = "/gallery" -> IF u # Null THEN "GalleryPage" ELSE "AuthPage"

\* The page on screen.
Screen == Rendered(pathname, user, loading)

\* Mutant: the effect redirects from the auth page only.
RedirectFrom_authOnly == {"/auth"}

\* location.pathname === '/auth' || location.pathname === '/'
RedirectFrom == {"/auth", "/"}

\* Landing is memoized with no dependencies: its handleGetStarted and
\* handleMagicTricks are those of AppContent's first render, whose user is
\* the provider's initial state.
firstRenderUser == Null

\* handleGetStarted, handleMagicTricks
handleGetStarted(u) == IF u # Null THEN "/magic-tricks" ELSE "/auth"

\* Where the buttons of a page navigate to (signing out and submitting the
\* auth form apart).
Buttons(screen, u) ==
  CASE screen = "Loading" -> {}
    [] screen = "Landing" ->
         {handleGetStarted(firstRenderUser)}
           \cup (IF u # Null THEN {"/gallery", "/profile"} ELSE {})
    [] screen = "AuthPage" -> {"/"}
    [] screen = "MagicTricksPage" -> {"/", "/profile"}
    [] screen = "ProfilePage" -> {"/", "/magic-tricks"}
    [] screen = "GalleryPage" -> {"/", "/magic-tricks"}

\* No handleSubmit has been called on the page on screen.
NoSubmit == [pc |-> "idle", route |-> "", user |-> Null]

AppIdle == pathname = "/" /\ submit = NoSubmit /\ signOutNav = FALSE

AppFrame ==
  UNCHANGED <<parseVars, validateVars, storageVars, cacheVars, authVars, rlsVars,
              remoteVars, tricksVars>>

\* A button of the page on screen is pressed.
navigate ==
  /\ \E to \in Buttons(Screen, user) : pathname' = to
  /\ submit' = NoSubmit
  /\ signOutNav' = FALSE
  /\ AppFrame

\* The effect of AppContent on [user, location.pathname].
redirectEffect ==
  /\ user # Null
  /\ pathname \in RedirectFrom
  /\ pathname' = "/magic-tricks"
  /\ UNCHANGED <<submit, signOutNav>>
  /\ AppFrame

\* The auth page's handleSubmit for a login, up to its await: signIn is
\* called (and accepts).  The handler holds the redirectAfterLogin of the
\* render it was made in, and with it that render's user.
handleSubmit ==
  /\ Screen = "AuthPage"
  /\ submit.pc # "awaiting"
  /\ signInWithPassword
  /\ submit' = [pc |-> "awaiting", route |-> pathname, user |-> user]
  /\ signOutNav' = FALSE
  /\ UNCHANGED pathname

\* redirectAfterLogin() of a render whose user was u.
redirectAfterLogin(u) ==
  IF u # Null THEN pathname' = "/magic-tricks" ELSE UNCHANGED pathname

\* handleSubmit after await signIn(...) returned no error.
handleSubmitResolves ==
  /\ submit.pc = "awaiting"
  /\ redirectAfterLogin(submit.user)
  /\ submit' = [submit EXCEPT !.pc = "done"]
  /\ UNCHANGED signOutNav
  /\ AppFrame

\* The profile page's handleSignOut up to its await.
handleSignOut ==
  /\ Screen = "ProfilePage"
  /\ signOut

\* handleSignOut after await signOut(): navigate('/').
handleSignOutResolves ==
  /\ signOutCleared
  /\ pathname' = "/"
  /\ submit' = NoSubmit
  /\ signOutNav' = TRUE

(***************************************************************************)
(* MagicTricksPage: the add-trick form and the trick-generation modal      *)
(*                                                                         *)
(* A text typed into the form is a sequence of tokens: " " a blank, "\n" a *)
(* line break, any other token a word.  The list is taken as loaded; the   *)
(* difficulty of a generation is not told apart.                           *)
(***************************************************************************)
\* The rows the list holds at most.
MaxTricks == 2

Whitespace == {" ", "\n"}

RECURSIVE TrimStart(_)
TrimStart(text) ==
  IF text # <<>> /\ Head(text) \in Whitespace THEN TrimStart(Tail(text)) ELSE text

RECURSIVE TrimEnd(_)
TrimEnd(text) ==
  IF text # <<>> /\ text[Len(text)] \in Whitespace
  THEN TrimEnd(SubSeq(text, 1, Len(text) - 1))
  ELSE text

\* String.prototype.trim
Trim(text) == TrimEnd(TrimStart(text))

\* text.split('\n')
RECURSIVE SplitLines(_, _)
SplitLines(text, line) ==
  IF text = <<>> THEN <<line>>
  ELSE IF Head(text) = "\n" THEN <<line>> \o SplitLines(Tail(text), <<>>)
  ELSE SplitLines(Tail(text), Append(line, Head(text)))

\* .map(s => s.trim()).filter(Boolean), a line given by its word
RECURSIVE TrimmedLines(_)
TrimmedLines(lines) ==
  IF lines = <<>> THEN <<>>
  ELSE IF Trim(Head(lines)) = <<>> THEN TrimmedLines(Tail(lines))
  ELSE <<Trim(Head(lines))[1]>> \o TrimmedLines(Tail(lines))

\* instructions.length ? instructions : ['Practice and amaze your audience!']
Instructions(text) ==
  LET instructions == TrimmedLines(SplitLines(text, <<>>))
  IN IF instructions # <<>> THEN instructions
     ELSE <<"Practice and amaze your audience!">>

\* What can be typed into the form.
FormTitles == {<<>>, <<" ">>, <<" ", "T">>}
FormDescriptions == {<<>>, <<"D", " ">>}
FormDifficulties == {"Easy", "Hard"}
InstructionTexts == {<<>>, <<" ", "a", "\n", "\n", "b">>}

\* The items of the modal (of getCommonItems()).
Items == {"Coins", "Cups"}

\* A row of magic_tricks as the page sends and receives it.
Row(userId, title, description, instructions, difficulty) ==
  [user_id |-> userId, title |-> title, description |-> description,
   instructions |-> instructions, difficulty |-> difficulty]

NoRow == Row(Null, JsUndefined, JsUndefined, JsUndefined, JsUndefined)

\* { ...data, createdByMe: true }
WithOwnership(data, createdByMe) ==
  [user_id |-> data.user_id, title |-> data.title,
   description |-> data.description, instructions |-> data.instructions,
   difficulty |-> data.difficulty, createdByMe |-> createdByMe]

\* A row of another user, as loadTricks put it in the list.
LoadedTrick ==
  WithOwnership(Row("u2", JsString("Old"), JsString("D"), JsArray(<<"a">>),
                    JsString("Easy")), FALSE)

\* Mutant: a text counts as filled in when it is not empty.
HasText_untrimmed(text) == text # <<>>

\* !!text.trim()
HasText(text) == Trim(text) # <<>>

\* The row handleAddTrick inserts, or NoRow when it returns at once.
handleAddTrickRow(title, description, instructionsText, difficulty, u) ==
  IF ~HasText(title) \/ ~HasText(description) \/ u = Null THEN NoRow
  ELSE Row(u, [type |-> "string", val |-> Trim(title)],
           [type |-> "string", val |-> Trim(description)],
           JsArray(Instructions(instructionsText)), JsString(difficulty))

\* The row handleSaveGeneratedTrick inserts, or NoRow when it returns at once.
handleSaveGeneratedTrickRow(trick, u) ==
  IF trick = NoTrick \/ u = Null THEN NoRow
  ELSE Row(u, trick.title, trick.description, trick.instructions,
           trick.difficulty)

NoTrickInsert == [handler |-> "none", row |-> NoRow]
NoGeneration == [items |-> <<>>, closed |-> FALSE, pending |-> FALSE]

\* Replies of the API as the page meets them: the call throws, the reply
\* has no text block, or its text holds an object with every member.
PageReplies ==
  [kind : {"throws"}, content : {<<>>}, body : {EmptyObject}, thrown : Thrown]
  \cup {[kind |-> "noblock", content |-> <<>>, body |-> EmptyObject,
         thrown |-> NoThrow]}
  \cup {[kind |-> "text", content |-> <<"{", "b", "}">>,
         body |-> [title |-> JsString("T"), description |-> JsString("D"),
                   instructions |-> JsArray(<<"a", "b">>),
                   difficulty |-> JsString("Hard"), items |-> JsArray(<<"x">>)],
         thrown |-> NoThrow]}

\* What generateMagicTrick resolves with for the items, the API key set.
GenerationResults(items) ==
  {generateMagicTrickResult([items |-> JsArray(items), apiKey |-> TRUE], reply) :
     reply \in PageReplies}

\* The page as mounted, its list empty.
TricksIdle ==
  /\ tricks = <<>>
  /\ saving = FALSE
  /\ trickError = ""
  /\ isAddOpen = FALSE
  /\ newTitle = <<>>
  /\ newDescription = <<>>
  /\ newDifficulty = "Easy"
  /\ newInstructionsText = <<>>
  /\ isGenerating = FALSE
  /\ showGenerateModal = FALSE
  /\ selectedItems = <<>>
  /\ generationError = ""
  /\ generatedTrick = NoTrick
  /\ apiKey = TRUE
  /\ generation = NoGeneration
  /\ trickInsert = NoTrickInsert

TricksFrame ==
  UNCHANGED <<parseVars, validateVars, storageVars, cacheVars, authVars, rlsVars,
              remoteVars, appVars>>

\* onClick={() => setIsAddOpen(!isAddOpen)}; the modal covers the page.
setIsAddOpen ==
  /\ ~showGenerateModal
  /\ isAddOpen' = ~isAddOpen
  /\ UNCHANGED <<newTitle, newDescription, newDifficulty, newInstructionsText,
                 tricks, saving, trickError, trickInsert, generateVars>>
  /\ TricksFrame

\* onChange of one of the inputs of the form.
editForm ==
  /\ ~showGenerateModal
  /\ isAddOpen
  /\ \/ \E v \in FormTitles \ {newTitle} :
          newTitle' = v
            /\ UNCHANGED <<newDescription, newDifficulty, newInstructionsText>>
     \/ \E v \in FormDescriptions \ {newDescription} :
          newDescription' = v
            /\ UNCHANGED <<newTitle, newDifficulty, newInstructionsText>>
     \/ \E v \in FormDifficulties \ {newDifficulty} :
          newDifficulty' = v
            /\ UNCHANGED <<newTitle, newDescription, newInstructionsText>>
     \/ \E v \in InstructionTexts \ {newInstructionsText} :
          newInstructionsText' = v
            /\ UNCHANGED <<newTitle, newDescription, newDifficulty>>
  /\ UNCHANGED <<isAddOpen, tricks, saving, trickError, trickInsert, generateVars>>
  /\ TricksFrame

\* Save Trick is pressed (it is disabled while a title or description is
\* missing and while saving): handleAddTrick up to its await.
handleAddTrick ==
  /\ ~showGenerateModal
  /\ isAddOpen
  /\ HasText(newTitle) /\ HasText(newDescription) /\ ~saving
  /\ Len(tricks) < MaxTricks
  /\ LET row == handleAddTrickRow(newTitle, newDescription, newInstructionsText,
                                  newDifficulty, user)
     IN IF row = NoRow
        THEN UNCHANGED <<saving, trickError, trickInsert>>
        ELSE /\ saving' = TRUE
             /\ trickError' = ""
             /\ trickInsert' = [handler |-> "handleAddTrick", row |-> row]
  /\ UNCHANGED <<tricks, formVars, generateVars>>
  /\ TricksFrame

\* handleAddTrick after its await: the insert gave the row, gave an error or
\* threw.
handleAddTrickResolves ==
  /\ trickInsert.handler = "handleAddTrick"
  /\ \E outcome \in {"ok", "error", "throws"} :
       IF outcome = "ok"
       THEN /\ tricks' = <<WithOwnership(trickInsert.row, TRUE)>> \o tricks
            /\ newTitle' = <<>>
            /\ newDescription' = <<>>
            /\ newDifficulty' = "Easy"
            /\ newInstructionsText' = <<>>
            /\ isAddOpen' = FALSE
            /\ UNCHANGED trickError
       ELSE /\ trickError' = "Failed to save magic trick. Please try again."
            /\ UNCHANGED <<tricks, formVars>>
  /\ saving' = FALSE
  /\ trickInsert' = NoTrickInsert
  /\ UNCHANGED generateVars
  /\ TricksFrame

\* onClick={() => setShowGenerateModal(true)}
openGenerateModal ==
  /\ ~showGenerateModal
  /\ showGenerateModal' = TRUE
  /\ UNCHANGED <<isGenerating, selectedItems, generationError, generatedTrick,
                 apiKey, generation, tricks, saving, trickError, trickInsert,
                 formVars>>
  /\ TricksFrame

\* prev.includes(item) ? prev.filter(i => i !== item) : [...prev, item]
Toggle(items, item) ==
  IF \E i \in 1..Len(items) : items[i] = item
  THEN SelectSeq(items, LAMBDA i : i # item)
  ELSE Append(items, item)

handleItemToggle ==
  /\ showGenerateModal
  /\ generatedTrick = NoTrick
  /\ \E item \in Items : selectedItems' = Toggle(selectedItems, item)
  /\ UNCHANGED <<isGenerating, showGenerateModal, generationError,
                 generatedTrick, apiKey, generation, tricks, saving,
                 trickError, trickInsert, formVars>>
  /\ TricksFrame

\* Generate is pressed (it is disabled while generating and with nothing
\* selected): handleGenerateTrick up to its await.
handleGenerateTrick ==
  /\ showGenerateModal
  /\ generatedTrick = NoTrick
  /\ ~isGenerating /\ selectedItems # <<>>
  /\ IF selectedItems = <<>>
     THEN /\ generationError' = "Please select at least one item for the trick"
          /\ UNCHANGED <<isGenerating, generation>>
     ELSE IF ~apiKey
     THEN /\ generationError' =
               "Claude API is not configured. Please add VITE_CLAUDE_API_KEY to your environment variables."
          /\ UNCHANGED <<isGenerating, generation>>
     ELSE /\ isGenerating' = TRUE
          /\ generationError' = ""
          /\ generation' = [items |-> selectedItems, closed |-> FALSE,
                            pending |-> TRUE]
  /\ UNCHANGED <<showGenerateModal, selectedItems, generatedTrick, apiKey,
                 tricks, saving, trickError, trickInsert, formVars>>
  /\ TricksFrame

\* handleGenerateTrick after its await (generateMagicTrick does not throw).
handleGenerateTrickResolves ==
  /\ generation.pending
  /\ \E result \in GenerationResults(generation.items) :
       IF result.success /\ result.trick # NoTrick
       THEN generatedTrick' = result.trick /\ UNCHANGED generationError
       ELSE /\ generationError' = IF result.error # "" THEN result.error
                                  ELSE "Failed to generate trick"
            /\ UNCHANGED generatedTrick
  /\ isGenerating' = FALSE
  /\ generation' = NoGeneration
  /\ UNCHANGED <<showGenerateModal, selectedItems, apiKey, tricks, saving,
                 trickError, trickInsert, formVars>>
  /\ TricksFrame

\* Generate Another: onClick={() => setGeneratedTrick(null)}
generateAnother ==
  /\ showGenerateModal
  /\ generatedTrick # NoTrick
  /\ generatedTrick' = NoTrick
  /\ UNCHANGED <<isGenerating, showGenerateModal, selectedItems,
                 generationError, apiKey, generation, tricks, saving,
                 trickError, trickInsert, formVars>>
  /\ TricksFrame

\* Save is pressed on the generated trick (it is disabled while saving):
\* handleSaveGeneratedTrick up to its await.
handleSaveGeneratedTrick ==
  /\ showGenerateModal
  /\ generatedTrick # NoTrick
  /\ ~saving
  /\ Len(tricks) < MaxTricks
  /\ LET row == handleSaveGeneratedTrickRow(generatedTrick, user)
     IN IF row = NoRow
        THEN UNCHANGED <<saving, trickError, trickInsert>>
        ELSE /\ saving' = TRUE
             /\ trickError' = ""
             /\ trickInsert' = [handler |-> "handleSaveGeneratedTrick", row |-> row]
  /\ UNCHANGED <<tricks, formVars, generateVars>>
  /\ TricksFrame

\* handleSaveGeneratedTrick after its await.
handleSaveGeneratedTrickResolves ==
  /\ trickInsert.handler = "handleSaveGeneratedTrick"
  /\ \E outcome \in {"ok", "error", "throws"} :
       IF outcome = "ok"
       THEN /\ tricks' = <<WithOwnership(trickInsert.row, TRUE)>> \o tricks
            /\ generatedTrick' = NoTrick
            /\ showGenerateModal' = FALSE
            /\ selectedItems' = <<>>
            /\ generationError' = ""
            /\ UNCHANGED trickError
       ELSE /\ trickError' = "Failed to save generated trick. Please try again."
            /\ UNCHANGED <<tricks, generatedTrick, showGenerateModal,
                           selectedItems, generationError>>
  /\ saving' = FALSE
  /\ trickInsert' = NoTrickInsert
  /\ UNCHANGED <<isGenerating, apiKey, generation, formVars>>
  /\ TricksFrame

\* The modal's close button or Cancel.  (generation.closed notes that the
\* modal was closed while the call was in flight.)
handleCloseGenerateModal ==
  /\ showGenerateModal
  /\ showGenerateModal' = FALSE
  /\ generatedTrick' = NoTrick
  /\ selectedItems' = <<>>
  /\ generationError' = ""
  /\ generation' = IF generation.pending
                   THEN [generation EXCEPT !.closed = TRUE] ELSE generation
  /\ UNCHANGED <<isGenerating, apiKey, tricks, saving, trickError, trickInsert,
                 formVars>>
  /\ TricksFrame

(***************************************************************************)
(* Database setup: the tables users and magic_tricks and their row-level   *)
(* security policies                                                       *)
(***************************************************************************)
\* Mutant: the UPDATE policy of users lets everyone through.
Policies_updateOpen ==
  {[table |-> "users", cmd |-> "SELECT", using |-> "true", check |-> ""],
   [table |-> "users", cmd |-> "INSERT", using |-> "", check |-> "auth.uid() = id"],
   [table |-> "users", cmd |-> "UPDATE", using |-> "true", check |-> ""],
   [table |-> "magic_tricks", cmd |-> "SELECT", using |-> "true", check |-> ""],
   [table |-> "magic_tricks", cmd |-> "INSERT", using |-> "",
    check |-> "auth.uid() = user_id"],
   [table |-> "magic_tricks", cmd |-> "UPDATE", using |-> "auth.uid() = user_id",
    check |-> ""],
   [table |-> "magic_tricks", cmd |-> "DELETE", using |-> "auth.uid() = user_id",
    check |-> ""]}

\* CREATE POLICY ... ON table FOR cmd USING (using) WITH CHECK (check), as
\* the script creates them ("" for a clause that is not given).
Policies ==
  {[table |-> "users", cmd |-> "SELECT", using |-> "true", check |-> ""],
   [table |-> "users", cmd |-> "INSERT", using |-> "", check |-> "auth.uid() = id"],
   [table |-> "users", cmd |-> "UPDATE", using |-> "auth.uid() = id", check |-> ""],
   [table |-> "magic_tricks", cmd |-> "SELECT", using |-> "true", check |-> ""],
   [table |-> "magic_tricks", cmd |-> "INSERT", using |-> "",
    check |-> "auth.uid() = user_id"],
   [table |-> "magic_tricks", cmd |-> "UPDATE", using |-> "auth.uid() = user_id",
    check |-> ""],
   [table |-> "magic_tricks", cmd |-> "DELETE", using |-> "auth.uid() = user_id",
    check |-> ""]}

\* A policy expression on a row for the identity uid (Null: no session, so
\* auth.uid() is NULL and no comparison with it is true).
Qual(expr, uid, row) ==
  CASE expr = "true" -> TRUE
    [] expr = "auth.uid() = id" -> uid # Null /\ uid = row.id
    [] expr = "auth.uid() = user_id" -> uid # Null /\ uid = row.user_id
    [] OTHER -> FALSE

\* With row-level security enabled a command passes on a row when one of
\* the table's policies for the command passes; WITH CHECK of a policy that
\* gives none is its USING.
PoliciesFor(table, cmd) == {p \in Policies : p.table = table /\ p.cmd = cmd}
UsingPasses(table, cmd, uid, row) ==
  \E p \in PoliciesFor(table, cmd) : Qual(p.using, uid, row)
WithCheckPasses(table, cmd, uid, row) ==
  \E p \in PoliciesFor(table, cmd) :
    Qual(IF p.check = "" THEN p.using ELSE p.check, uid, row)

\* The rows the tables can hold: users rows by id and bio, magic_tricks
\* rows by id, user_id and title.
Tables == {"users", "magic_tricks"}
TrickIds == {"t1", "t2"}
Titles == {"Card", "Coin"}
UsersRows == {MergeProfile(DbProfile(u), bio) : u \in Users, bio \in {""} \cup Bios}
MagicTricksRows == [id : TrickIds, user_id : Users, title : Titles]
Rows(table) == IF table = "users" THEN UsersRows ELSE MagicTricksRows
Identities == Users \cup {Null}

NoStatement ==
  [uid |-> Null, table |-> "", cmd |-> "", id |-> "", n |-> 0, error |-> FALSE]
Statement(uid, table, cmd, id, n, failed) ==
  [uid |-> uid, table |-> table, cmd |-> cmd, id |-> id, n |-> n, error |-> failed]

RlsIdle ==
  /\ usersTable = {}
  /\ magicTricks = {}
  /\ statement = NoStatement

RlsFrame ==
  UNCHANGED <<parseVars, validateVars, storageVars, cacheVars, authVars, remoteVars, appVars, tricksVars>>

\* SELECT * FROM table, sent as uid: the rows the SELECT policies let pass.
selectFrom ==
  /\ \E uid \in Identities, table \in Tables :
       LET rows == IF table = "users" THEN usersTable ELSE magicTricks
           visible == {r \in rows : UsingPasses(table, "SELECT", uid, r)}
       IN statement' = Statement(uid, table, "SELECT", "", Cardinality(visible), FALSE)
  /\ UNCHANGED <<usersTable, magicTricks>>
  /\ RlsFrame

\* INSERT INTO table, sent as uid: the new row has to pass WITH CHECK, its
\* primary key has to be free and a trick's user_id has to be a users row.
insertInto ==
  /\ \E uid \in Identities, table \in Tables :
       \E row \in Rows(table) :
         LET rows == IF table = "users" THEN usersTable ELSE magicTricks
             ok == /\ WithCheckPasses(table, "INSERT", uid, row)
                   /\ \A r \in rows : r.id # row.id
                   /\ table = "magic_tricks" => \E u \in usersTable : u.id = row.user_id
         IN /\ statement' = Statement(uid, table, "INSERT", row.id,
                                      IF ok THEN 1 ELSE 0, ~ok)
            /\ usersTable' = IF ok /\ table = "users"
                             THEN usersTable \cup {row} ELSE usersTable
            /\ magicTricks' = IF ok /\ table = "magic_tricks"
                              THEN magicTricks \cup {row} ELSE magicTricks
  /\ RlsFrame

\* UPDATE table SET ... WHERE id = ..., sent as uid: the rows that pass the
\* SELECT and UPDATE policies are updated, and the new row has to pass
\* WITH CHECK.
updateWhere ==
  /\ \E uid \in Identities, table \in Tables :
       \E row \in Rows(table) :
         LET rows == IF table = "users" THEN usersTable ELSE magicTricks
             targets == {r \in rows : /\ r.id = row.id
                                      /\ UsingPasses(table, "SELECT", uid, r)
                                      /\ UsingPasses(table, "UPDATE", uid, r)}
             ok == /\ WithCheckPasses(table, "UPDATE", uid, row)
                   /\ table = "magic_tricks" => \E u \in usersTable : u.id = row.user_id
             done == targets # {} /\ ok
         IN /\ statement' = Statement(uid, table, "UPDATE", row.id,
                                      IF done THEN 1 ELSE 0, targets # {} /\ ~ok)
            /\ usersTable' = IF done /\ table = "users"
                             THEN (usersTable \ targets) \cup {row} ELSE usersTable
            /\ magicTricks' = IF done /\ table = "magic_tricks"
                              THEN (magicTricks \ targets) \cup {row} ELSE magicTricks
  /\ RlsFrame

\* DELETE FROM table WHERE id = ..., sent as uid: the rows that pass the
\* SELECT and DELETE policies are deleted, and with a users row the tricks
\* that reference it (ON DELETE CASCADE).
deleteFrom ==
  /\ \E uid \in Identities, table \in Tables :
       \E id \in {row.id : row \in Rows(table)} :
         LET rows == IF table = "users" THEN usersTable ELSE magicTricks
             targets == {r \in rows : /\ r.id = id
                                      /\ UsingPasses(table, "SELECT", uid, r)
                                      /\ UsingPasses(table, "DELETE", uid, r)}
         IN /\ statement' = Statement(uid, table, "DELETE", id,
                                      Cardinality(targets), FALSE)
            /\ usersTable' = IF table = "users" THEN usersTable \ targets
                             ELSE usersTable
            /\ magicTricks' = IF table = "users"
                              THEN {t \in magicTricks : t.user_id # id \/ targets = {}}
                              ELSE magicTricks \ targets
  /\ RlsFrame

(***************************************************************************)
(* Specifications                                                          *)
(***************************************************************************)
\* Everything at rest, as before any of the specifications' steps.
AllIdle ==
  /\ ParseIdle /\ ValidateIdle /\ CacheIdle /\ AuthIdle /\ RlsIdle
  /\ RemoteIdle /\ AppIdle /\ TricksIdle
  /\ StorageIdle /\ user = "u1" /\ page = "gallery"

InitParse == AllIdle

NextParse == generateMagicTrick

SpecParse == InitParse /\ [][NextParse]_vars

InitValidate == AllIdle

NextValidate ==
  \/ validateFileCall
  \/ validateProfilePictureCall
  \/ validateUserVideoCall

SpecValidate == InitValidate /\ [][NextValidate]_vars

InitStorage ==
  /\ ParseIdle /\ ValidateIdle /\ CacheIdle /\ AuthIdle /\ RlsIdle /\ RemoteIdle
  /\ AppIdle /\ TricksIdle
  /\ StorageIdle

NextStorage ==
  \/ authUserChanges
  \/ navigatePage
  \/ openUploadModal
  \/ closeUploadModal
  \/ setSelectedMedia
  \/ handleFileUpload
  \/ handleFileUploadDone
  \/ uploadStatusTimer
  \/ handleProfilePictureChange
  \/ handleProfilePictureChangeDone
  \/ handleDeleteMedia
  \/ handleDeleteMediaDone

SpecStorage == InitStorage /\ [][NextStorage]_vars

InitCache == AllIdle

NextCache ==
  \/ Tick
  \/ saveUserCall
  \/ saveUserProfileCall
  \/ saveSessionCall
  \/ refreshStoredDataCall
  \/ clearAllCall
  \/ getUserCall
  \/ getUserProfileCall
  \/ getSessionCall
  \/ hasValidStoredAuthCall

SpecCache == InitCache /\ [][NextCache]_vars

\* The page loads: nothing of the provider has run, the cache is empty or
\* holds the first user and their profile saved just now or more than a day
\* ago, and the auth client holds a session of either user or none.
StartTime == 2 * twentyFourHours
EmptyStore == [key \in STORAGE_KEYS |-> Absent]
StartStores ==
  {EmptyStore} \cup
  {saveAuthState(EmptyStore, u, DbProfile(u), t, t) :
     u \in {"u1"}, t \in {0, StartTime}}

InitAuth ==
  /\ ParseIdle /\ ValidateIdle /\ Mounted /\ page = "gallery" /\ clock = 0
  /\ user = Null
  /\ userProfile = NoProfile
  /\ loading = TRUE
  /\ error = ""
  /\ isInitialized = FALSE
  /\ maxTimeout = FALSE
  /\ initPc = "start"
  /\ sessionCheck = "none"
  /\ remote \in Users \cup {Null}
  /\ events = <<>>
  /\ flows = {}
  /\ update = NoUpdate
  /\ signOutPc = "idle"
  /\ signedOut = FALSE
  /\ inserted = NoInsert
  /\ localStorage \in StartStores
  /\ now = StartTime
  /\ ret = NoCall
  /\ RlsIdle
  /\ RemoteIdle
  /\ AppIdle /\ TricksIdle

NextAuth ==
  \/ initializeAuth
  \/ getSessionResolves
  \/ maxTimeoutFires
  \/ onAuthStateChange
  \/ signIn
  \/ sessionEnds
  \/ fetchUserProfileResolves
  \/ createUserProfileGotUser
  \/ createUserProfileInserted
  \/ createUserProfileRetry
  \/ updateProfile
  \/ updateProfileResolves
  \/ signOut
  \/ signOutResolves

SpecAuth == InitAuth /\ [][NextAuth]_vars

\* The effect of a mounted provider runs, and a timer that is set and not
\* cleared fires; whether the session check is ever answered is left open.
SpecAuthFair ==
  SpecAuth /\ WF_vars(initializeAuth) /\ WF_vars(maxTimeoutFires)

InitRls == AllIdle

NextRls ==
  \/ selectFrom
  \/ insertInto
  \/ updateWhere
  \/ deleteFrom

SpecRls == InitRls /\ [][NextRls]_vars

InitRemote == AllIdle

NextRemote ==
  \/ generateMagicTrick
  \/ uploadFileCall
  \/ deleteFileCall

SpecRemote == InitRemote /\ [][NextRemote]_vars

\* The app opened at any of its routes.
InitApp ==
  /\ ParseIdle /\ ValidateIdle /\ Mounted /\ page = "gallery" /\ clock = 0
  /\ user = Null
  /\ userProfile = NoProfile
  /\ loading = TRUE
  /\ error = ""
  /\ isInitialized = FALSE
  /\ maxTimeout = FALSE
  /\ initPc = "start"
  /\ sessionCheck = "none"
  /\ remote \in Users \cup {Null}
  /\ events = <<>>
  /\ flows = {}
  /\ update = NoUpdate
  /\ signOutPc = "idle"
  /\ signedOut = FALSE
  /\ inserted = NoInsert
  /\ localStorage \in StartStores
  /\ now = StartTime
  /\ ret = NoCall
  /\ RlsIdle
  /\ RemoteIdle
  /\ pathname \in Paths
  /\ submit = NoSubmit
  /\ signOutNav = FALSE
  /\ TricksIdle

NextApp ==
  \/ initializeAuth
  \/ getSessionResolves
  \/ maxTimeoutFires
  \/ onAuthStateChange
  \/ sessionEnds
  \/ fetchUserProfileResolves
  \/ createUserProfileGotUser
  \/ createUserProfileInserted
  \/ createUserProfileRetry
  \/ navigate
  \/ redirectEffect
  \/ handleSubmit
  \/ handleSubmitResolves
  \/ handleSignOut
  \/ handleSignOutResolves

SpecApp == InitApp /\ [][NextApp]_vars

\* React runs the effect of a render.
SpecAppFair == SpecApp /\ WF_vars(redirectEffect)

\* The page mounted for a signed-in user, its list loaded, with or without
\* an API key in the build.
InitTricks ==
  /\ ParseIdle /\ ValidateIdle /\ CacheIdle /\ AuthIdle /\ RlsIdle
  /\ RemoteIdle /\ AppIdle
  /\ StorageIdle /\ user = "u1" /\ page = "gallery"
  /\ tricks = <<LoadedTrick>>
  /\ saving = FALSE
  /\ trickError = ""
  /\ isAddOpen = FALSE
  /\ newTitle = <<>>
  /\ newDescription = <<>>
  /\ newDifficulty = "Easy"
  /\ newInstructionsText = <<>>
  /\ isGenerating = FALSE
  /\ showGenerateModal = FALSE
  /\ selectedItems = <<>>
  /\ generationError = ""
  /\ generatedTrick = NoTrick
  /\ apiKey \in BOOLEAN
  /\ generation = NoGeneration
  /\ trickInsert = NoTrickInsert

NextTricks ==
  \/ setIsAddOpen
  \/ editForm
  \/ handleAddTrick
  \/ handleAddTrickResolves
  \/ openGenerateModal
  \/ handleItemToggle
  \/ handleGenerateTrick
  \/ handleGenerateTrickResolves
  \/ generateAnother
  \/ handleSaveGeneratedTrick
  \/ handleSaveGeneratedTrickResolves
  \/ handleCloseGenerateModal

SpecTricks == InitTricks /\ [][NextTricks]_vars

(***************************************************************************)
(* Claims about lib/claude.ts (checked under SpecParse)                    *)
(***************************************************************************)
\* The last call received a text from the API.
GotText == request.apiKey /\ apiReply.kind = "text" /\ apiReply.content # <<>>

\* Prose: any text that holds no member list and no JSON object of its own
\* (over this alphabet the only object without a member list is "{}").
IsProse(s) ==
  /\ \A i \in 1..Len(s) : s[i] # "b"
  /\ \A i \in 1..(Len(s) - 1) : ~(s[i] = "{" /\ s[i + 1] = "}")

\* content is prose, then the object "{" members "}", then prose.
ProseObjectProse(content) ==
  \E i \in 1..(Len(content) - 2) :
    /\ SubSeq(content, i, i + 2) = <<"{", "b", "}">>
    /\ IsProse(SubSeq(content, 1, i - 1))
    /\ IsProse(SubSeq(content, i + 3, Len(content)))

\* The embedded object carries a non-empty title and description, an
\* instructions array, a difficulty of the enum and an items array.
WellTyped(body) ==
  /\ body.title.type = "string" /\ body.title.val # <<>>
  /\ body.description.type = "string" /\ body.description.val # <<>>
  /\ IsArray(body.instructions)
  /\ body.difficulty \in {JsString("Easy"), JsString("Medium"), JsString("Hard")}
  /\ IsArray(body.items)

\* C1: for every reply made of arbitrary prose, one well-formed, well-typed
\* JSON object and arbitrary prose again, the returned trick's title,
\* description, instructions, difficulty and items are the embedded object's.
C1_ExtractsEmbeddedObject ==
  (GotText /\ ProseObjectProse(apiReply.content) /\ WellTyped(apiReply.body))
    => /\ response.success
       /\ response.trick = apiReply.body

\* The matched brace span of the last reply parsed as JSON.
SpanParsed ==
  /\ GotText
  /\ HasJsonMatch(apiReply.content)
  /\ JsonParses(jsonMatch(apiReply.content))

\* The object the last reply's span parsed to.
ParsedObject == JsonParse(jsonMatch(apiReply.content), apiReply.body)

\* A member of the parsed object has the wrong type.
HasWrongType(parsed) ==
  \/ parsed.title.type # "string"
  \/ parsed.description.type # "string"
  \/ ~IsArray(parsed.instructions)
  \/ parsed.difficulty \notin {JsString("Easy"), JsString("Medium"), JsString("Hard")}
  \/ ~IsArray(parsed.items)

\* C2 as stated: when a member of the embedded object has the wrong type,
\* the whole hardcoded fallback trick is returned.
C2_WrongTypeGivesWholeFallback ==
  (SpanParsed /\ HasWrongType(ParsedObject))
    => response.trick =
         [title |-> JsString("AI Generated Magic Trick"),
          description |-> JsString("A magical trick created using artificial intelligence!"),
          instructions |-> JsArray(<<"Gather your items", "Follow the magical steps",
                                     "Practice the routine", "Amaze your audience!">>),
          difficulty |-> JsString("Easy"),
          items |-> request.items]

\* C2 as amended: when the span parses, each member is defaulted on its
\* own: instructions that is not an array becomes ['Follow the magic!'], a
\* difficulty outside the enum becomes 'Easy', items that is not an array
\* becomes the requested items, a falsy title or description becomes its
\* default text, and every other member is the parsed object's.
C2_WrongTypeDefaultsPerField ==
  SpanParsed =>
    /\ response.success
    /\ response.trick.instructions =
         IF ParsedObject.instructions.type = "array"
         THEN ParsedObject.instructions ELSE JsArray(<<"Follow the magic!">>)
    /\ response.trick.difficulty =
         IF ParsedObject.difficulty.val \in {<<"Easy">>, <<"Medium">>, <<"Hard">>}
            /\ ParsedObject.difficulty.type = "string"
         THEN ParsedObject.difficulty ELSE JsString("Easy")
    /\ response.trick.items =
         IF ParsedObject.items.type = "array"
         THEN ParsedObject.items ELSE request.items
    /\ response.trick.title =
         IF Truthy(ParsedObject.title)
         THEN ParsedObject.title ELSE JsString("Generated Magic Trick")
    /\ response.trick.description =
         IF Truthy(ParsedObject.description)
         THEN ParsedObject.description
         ELSE JsString("A magical trick created just for you!")

\* A parsed object with instructions of the wrong type and a well-typed
\* title: only the instructions were defaulted.
C2_Witness ==
  /\ SpanParsed
  /\ ~IsArray(ParsedObject.instructions)
  /\ ParsedObject.instructions.type = "string"
  /\ ParsedObject.difficulty = JsString("Expert")
  /\ response.trick.title = JsString("T")
  /\ response.trick.instructions = JsArray(<<"Follow the magic!">>)
  /\ response.trick.difficulty = JsString("Easy")

\* The last reply was a non-empty text with no JSON object, or with a brace
\* span that is not parseable JSON.
Unparsable ==
  /\ GotText
  /\ \/ ~HasJsonMatch(apiReply.content)
     \/ ~JsonParses(jsonMatch(apiReply.content))

\* C3: a non-empty reply without a JSON object, or whose matched brace span
\* is not parseable, gives success: true with the hardcoded fallback trick
\* and the requested items.
C3_UnparsableGivesFallback ==
  Unparsable =>
    /\ response.success
    /\ response.trick.title = JsString("AI Generated Magic Trick")
    /\ response.trick.description =
         JsString("A magical trick created using artificial intelligence!")
    /\ response.trick.instructions =
         JsArray(<<"Gather your items", "Follow the magical steps",
                   "Practice the routine", "Amaze your audience!">>)
    /\ response.trick.difficulty = JsString("Easy")
    /\ response.trick.items = request.items

\* A reply whose brace span exists but is not JSON, answered with success.
C3_Witness ==
  /\ Unparsable
  /\ HasJsonMatch(apiReply.content)
  /\ response.success
  /\ response.trick.items = request.items

(***************************************************************************)
(* Claims about validateFile (checked under SpecValidate)                  *)
(***************************************************************************)
\* C4: validateFile returns valid: true exactly when the file's MIME type is
\* in the allow-list and its size is at most the limit (a file of exactly
\* the limit is accepted); otherwise valid: false with an error message.
C4_ValidIffAllowedAndWithinLimit ==
  validation.fn # "none" =>
    /\ validation.result.valid <=>
         /\ validation.file.type \in validation.allowedTypes
         /\ validation.file.size <= validation.maxSize
    /\ ~validation.result.valid => validation.result.error # ""
    /\ validation.result.valid => validation.result.error = ""

\* A file of an allowed type and of exactly the limit was accepted.
C4_Witness ==
  /\ validation.fn = "validateFile"
  /\ validation.file.type \in validation.allowedTypes
  /\ validation.file.size = validation.maxSize
  /\ validation.maxSize > 0
  /\ validation.result.valid

(***************************************************************************)
(* Claims about the uploads and deletes (checked under SpecStorage)        *)
(***************************************************************************)
\* An upload is on its way to object storage.
UploadSent == storageRequest.req.op = "upload"

\* C5: on every upload path the allow-list and the size limit checked before
\* the upload are those of the bucket the file is uploaded to, so a file
\* that passed the client-side validation is within the bucket's allow-list
\* and size limit.
C5_ClientChecksAreTheBuckets ==
  UploadSent =>
    /\ storageRequest.checkedTypes = BucketMimeTypes(storageRequest.req.bucket)
    /\ storageRequest.checkedMax = BucketSizeLimit(storageRequest.req.bucket)
    /\ storageRequest.req.type \in BucketMimeTypes(storageRequest.req.bucket)
    /\ storageRequest.req.size <= BucketSizeLimit(storageRequest.req.bucket)

\* A request has just been sent to object storage.
RequestSent == storageRequest' # storageRequest /\ storageRequest' # NoRequest

\* C6: every object path sent to object storage by the upload and delete
\* wrappers is '<userId>/<name>' with userId the id its caller passed, and
\* every call site passes the id of the user signed in at the call.
C6_PathsUnderSignedInUser ==
  /\ [][RequestSent =>
          /\ user \in Users
          /\ Len(storageRequest'.req.path) = 2
          /\ FolderName(storageRequest'.req.path) = user]_vars
  /\ [](\A u \in Users, name \in {GivenName(<<"cat", "png">>)} :
          /\ deleteProfilePicture(u, name).path = <<u, name>>
          /\ deleteUserVideo(u, name).path = <<u, name>>)

\* The second user is signed in and a file of theirs is being uploaded
\* under their folder.
C6_Witness ==
  /\ UploadSent
  /\ user = "u2"
  /\ storageRequest.signedIn = "u2"
  /\ storageRequest.req.path[1] = "u2"

(***************************************************************************)
(* Claims about the session cache (checked under SpecCache)                *)
(***************************************************************************)
\* The last getter was called with its data stored and a last-sync
\* timestamp stored.
CalledOnStoredData ==
  /\ ret.fn # "none"
  /\ ret.stored.kind = "json"
  /\ ret.lastSync.kind = "dec"

\* C7: with a user, profile or session stored and a last-sync timestamp t,
\* getUser, getUserProfile, getSession and hasValidStoredAuth give null /
\* false whenever the time of the call is more than 24 hours after t, and
\* the stored value / true whenever it is at most 24 hours after t.
C7_StaleAfter24Hours ==
  CalledOnStoredData =>
    LET stale == ret.at - ret.lastSync.num > 86400000
    IN CASE ret.fn = "hasValidStoredAuth" -> ret.valid = ~stale
         [] ret.fn = "getUserProfile" ->
              ret.profile = IF stale THEN NoProfile ELSE ret.stored.text
         [] OTHER -> ret.value = IF stale THEN Null ELSE ret.stored.text

\* getUser was called exactly 24 hours after the last sync and gave the
\* stored user.
C7_Witness ==
  /\ CalledOnStoredData
  /\ ret.fn = "getUser"
  /\ ret.at - ret.lastSync.num = 86400000
  /\ ret.value = "u1"

(***************************************************************************)
(* Claims about the auth provider (checked under SpecAuth)                 *)
(***************************************************************************)
\* Nothing asynchronous of the provider is in flight or undelivered.
AuthQuiet ==
  /\ flows = {}
  /\ update = NoUpdate
  /\ events = <<>>
  /\ signOutPc = "idle"

\* C8: after signOut has completed and every flow in flight then (profile
\* fetch, profile-creation retry timer, profile update) has finished, none
\* of the four cache keys is in local storage and the in-memory user and
\* userProfile are null, until the next sign-in.
C8_ClearedAfterSignOut ==
  (signedOut /\ AuthQuiet)
    => /\ \A key \in STORAGE_KEYS : localStorage[key] = Absent
       /\ user = Null
       /\ userProfile = NoProfile

\* C9: once getSession has resolved during initialization and the events
\* delivered so far have been handled, the in-memory user is the remote
\* session's user (null when there is none or the check failed), and when
\* it is null the cache has been cleared.
C9_UserIsRemoteAndNullMeansCleared ==
  (initPc = "done" /\ events = <<>>)
    => /\ \/ user = remote
          \/ sessionCheck \in {"error", "throws"} /\ user = Null
       /\ user = Null => \A key \in STORAGE_KEYS : localStorage[key] = Absent

(***************************************************************************)
(* Claims about the row-level security policies (checked under SpecRls)    *)
(***************************************************************************)
\* C10: under the policies of users and magic_tricks an identity that does
\* not own a row never updates or deletes it: a magic_tricks row changes or
\* goes only by an UPDATE or DELETE of the identity in its user_id, a users
\* row changes only by an UPDATE of the identity in its id and is never
\* deleted, and a SELECT of any identity returns every row.
C10_OnlyOwnerUpdatesOrDeletes ==
  [][/\ \A r \in magicTricks :
          r \notin magicTricks'
            => /\ statement'.cmd \in {"UPDATE", "DELETE"}
               /\ statement'.uid = r.user_id
     /\ \A r \in usersTable :
          r \notin usersTable'
            => /\ statement'.cmd = "UPDATE"
               /\ statement'.uid = r.id
               /\ \E r2 \in usersTable' : r2.id = r.id
     /\ statement'.cmd = "SELECT"
          => statement'.n = Cardinality(IF statement'.table = "users"
                                        THEN usersTable ELSE magicTricks)]_vars

\* The second user asked to delete a trick of the first user: no row was
\* deleted and the trick is still there.
C10_Witness ==
  /\ statement.cmd = "DELETE"
  /\ statement.table = "magic_tricks"
  /\ statement.uid = "u2"
  /\ statement.n = 0
  /\ \E r \in magicTricks : r.id = statement.id /\ r.user_id = "u1"

(***************************************************************************)
(* Claims about createUserProfile (checked under SpecAuth)                 *)
(***************************************************************************)
\* A flow inside createUserProfile, and how far its chain of attempts has
\* come: three places per attempt.
InCreate(f) == f.stage \in {"getUser", "insert", "timer"}
Rank(f) ==
  3 * f.retryCount
    + (CASE f.stage = "insert" -> 1 [] f.stage = "timer" -> 2 [] OTHER -> 0)

\* C11: one invocation of createUserProfile sends at most three inserts (the
\* first and at most two retries), a retry is scheduled only after a
\* permission error and with a delay of 2 seconds, and the chain of retries
\* terminates: every step of it moves it forward, no chain is further than
\* the third insert, and a chain that has not ended can take its next step.
C11_AtMostThreeInsertsThenEnds ==
  /\ [](\A f \in flows :
          /\ f.inserts <= 3
          /\ f.stage = "timer" => f.error = "permission" /\ f.delay = 2000
          /\ InCreate(f) => Rank(f) <= 7
          /\ f.stage = "getUser" => ENABLED createUserProfileGotUser
          /\ f.stage = "insert" => ENABLED createUserProfileInserted
          /\ f.stage = "timer" => ENABLED createUserProfileRetry)
  /\ [][\A g \in flows' \ flows :
          (InCreate(g) /\ Rank(g) > 0)
            => \E f \in flows \ flows' :
                 f.userId = g.userId /\ InCreate(f) /\ Rank(f) < Rank(g)]_vars

\* The third insert of a chain is in flight.
C11_Witness ==
  \E f \in flows : f.stage = "insert" /\ f.inserts = 3 /\ f.retryCount = 2

\* The insert that has just resolved failed for good: with a permission
\* error on the second retry, or with another error.
InsertFailedForGood ==
  \/ inserted.outcome = "permission" /\ inserted.retryCount = 2
  \/ inserted.outcome = "error"

\* C12: when the insert of a new profile fails with a permission error on
\* the first attempt and on both retries, or once with another error,
\* createUserProfile installs a temporary profile with id = userId as the
\* current userProfile, which is then non-null.
C12_FailedInsertInstallsTempProfile ==
  InsertFailedForGood
    => /\ userProfile # NoProfile
       /\ userProfile.id = inserted.userId
       /\ userProfile.temp

\* The second retry has just failed with a permission error and the
\* temporary profile of its user is the current one.
C12_Witness ==
  /\ inserted.outcome = "permission"
  /\ inserted.retryCount = 2
  /\ inserted.userId = "u2"
  /\ userProfile.id = "u2"
  /\ userProfile.temp

\* C13: the temporary profile is held in the provider's state only: it is
\* never written to the local session cache.
C13_TempProfileNeverCached ==
  localStorage["USER_PROFILE"].kind = "json"
    => ~localStorage["USER_PROFILE"].text.temp

(***************************************************************************)
(* Claims about the initialization (checked under SpecAuthFair)            *)
(***************************************************************************)
\* C14: initialization never leaves the app on the loading screen: whether
\* the session check gives a session, none, an error, throws or is never
\* answered, loading eventually becomes false, and once it is false it
\* never becomes true again.
C14_LoadingEnds ==
  /\ <>(~loading)
  /\ [][~loading => ~loading']_vars

\* The 10-second timer ended the loading: the session check is still
\* unanswered.
C14_Witness ==
  /\ ~loading
  /\ initPc = "getSession"
  /\ isInitialized
  /\ localStorage["USER"] = Absent

(***************************************************************************)
(* Claims about the writers of the cache (checked under SpecAuth)          *)
(***************************************************************************)
\* The flows in flight that write the cache when they resolve: the initial
\* session check, the profile fetches and creations with their retry
\* timers, and the profile update.
PendingWriters ==
  (IF initPc = "getSession" THEN 1 ELSE 0)
    + Cardinality(flows)
    + (IF update = NoUpdate THEN 0 ELSE 1)

\* C15: only one flow writes the session cache at a time: no two flows with
\* a pending write to the cache are in flight together.
C15_OneWriterAtATime == PendingWriters <= 1

(***************************************************************************)
(* Claims about the remote calls (checked under SpecRemote)                *)
(***************************************************************************)
\* A call has been made, and it ended in a remote error or an exception.
RemoteCalled == storageCall.fn # "none" \/ apiReply # IdleReply
StorageFailed == storageCall.fn # "none" /\ storageCall.outcome.kind # "ok"
GenerateFailed == apiReply.kind \in {"none", "throws", "noblock"}

\* C16 as stated: generateMagicTrick, uploadFile and deleteFile always
\* resolve, with success: false and a non-empty error on any remote error or
\* thrown exception, and with success: true carrying the trick or the url
\* and path otherwise.
C16_FailuresCarryNonEmptyError ==
  /\ StorageFailed =>
       ~storageCall.result.success /\ storageCall.result.error # ""
  /\ GenerateFailed => ~response.success /\ response.error # ""
  /\ (storageCall.fn = "uploadFile" /\ ~StorageFailed) =>
       /\ storageCall.result.success
       /\ storageCall.result.url # NoPath
       /\ storageCall.result.path = storageCall.req.path
  /\ (storageCall.fn = "deleteFile" /\ ~StorageFailed) => storageCall.result.success
  /\ apiReply.kind = "text" /\ apiReply.content # <<>> =>
       response.success /\ response.trick # NoTrick

\* C16 as amended: the three calls always resolve with a result.  On a
\* remote error the result is success: false with the error's message, on a
\* thrown Error success: false with its message, and these messages are
\* passed on as they are, empty ones too; on a thrown value that is no
\* Error, on a reply without content and without an API key (when no request
\* is sent) the error is a fixed non-empty text.  Otherwise the result is
\* success: true with the trick, or with the url and the path.
C16_FailuresCarryTheMessage ==
  /\ StorageFailed =>
       /\ ~storageCall.result.success
       /\ storageCall.result.error =
            IF storageCall.outcome.kind = "error" THEN storageCall.outcome.message
            ELSE IF storageCall.outcome.thrown.isError
            THEN storageCall.outcome.thrown.message
            ELSE "Unknown error"
  /\ GenerateFailed =>
       /\ ~response.success
       /\ response.error =
            IF apiReply.kind = "none" THEN "Claude API key not configured"
            ELSE IF apiReply.kind = "noblock"
            THEN "No content received from Claude API"
            ELSE IF apiReply.thrown.isError THEN apiReply.thrown.message
            ELSE "Failed to generate magic trick"
  /\ (request.apiKey <=> apiReply.kind # "none") \/ apiReply = IdleReply
  /\ (storageCall.fn = "uploadFile" /\ ~StorageFailed) =>
       /\ storageCall.result.success
       /\ storageCall.result.url # NoPath
       /\ storageCall.result.path = storageCall.req.path
  /\ (storageCall.fn = "deleteFile" /\ ~StorageFailed) => storageCall.result.success
  /\ apiReply.kind = "text" /\ apiReply.content # <<>> =>
       response.success /\ response.trick # NoTrick

\* uploadFile caught an Error with an empty message and resolved with
\* success: false and that message.
C16_Witness ==
  /\ storageCall.fn = "uploadFile"
  /\ storageCall.outcome.kind = "throws"
  /\ storageCall.outcome.thrown = [isError |-> TRUE, message |-> ""]
  /\ ~storageCall.result.success
  /\ storageCall.result.error = ""

\* The pages behind the sign-in and the routes they are served at.
ProtectedPages == {"MagicTricksPage", "ProfilePage", "GalleryPage"}
ProtectedPaths == {"/magic-tricks", "/profile", "/gallery"}

\* C17: a protected page (the trick list, the profile, the gallery) is on
\* screen only while user is non-null and loading is false; with user null
\* the routes /magic-tricks, /profile and /gallery show the auth page; and
\* while loading is true no route is rendered, only the loading screen.
C17_ProtectedPagesNeedUser ==
  /\ Screen \in ProtectedPages => user # Null /\ ~loading
  /\ (~loading /\ user = Null /\ pathname \in ProtectedPaths) => Screen = "AuthPage"
  /\ loading => Screen = "Loading"
  /\ \A path \in ProtectedPaths, u \in Users \cup {Null}, l \in BOOLEAN :
       /\ Rendered(path, u, l) \in ProtectedPages <=> (u # Null /\ ~l)
       /\ Rendered(path, u, l) = "AuthPage" <=> (u = Null /\ ~l)
       /\ Rendered(path, u, l) = "Loading" <=> l

\* Signed out on a protected route with the auth page shown, after a
\* sign-out from the profile page.
C17_Witness ==
  /\ pathname \in ProtectedPaths
  /\ user = Null
  /\ ~loading
  /\ signedOut
  /\ Screen = "AuthPage"

\* A signed-in user is on the landing page or on the auth page.
SignedInOffside == user # Null /\ pathname \in {"/", "/auth"}

\* C18: whenever user is non-null and the path is '/' or '/auth' the redirect
\* effect is due, what it does is to navigate to '/magic-tricks', and so a
\* signed-in user does not remain on '/' or '/auth' (a press of a button
\* that leads back to the landing page included).
C18_SignedInLeavesLandingAndAuth ==
  /\ [](SignedInOffside => ENABLED redirectEffect)
  /\ [][redirectEffect => SignedInOffside /\ pathname' = "/magic-tricks"]_vars
  /\ (SignedInOffside ~> ~SignedInOffside)

\* A signed-in user on the landing page, the effect not yet run.
C18_Witness ==
  /\ pathname = "/"
  /\ user # Null
  /\ ~loading
  /\ initPc = "done"
  /\ Screen = "Landing"

\* A sign-in submitted from the auth page has succeeded and has settled: the
\* handler is past its await, the user is set, no auth-change event waits
\* and no redirect is due.  (No button has been pressed since: a press
\* resets submit.)
SignInSettled ==
  /\ submit.pc = "done"
  /\ user # Null
  /\ events = <<>>
  /\ ~ENABLED redirectEffect

\* C19: after a successful sign-in submitted from the auth page the user is
\* on '/magic-tricks', on whichever route the auth page was shown.
C19_SignInLandsOnMagicTricks == SignInSettled => pathname = "/magic-tricks"

\* The listener is called: the oldest auth-change event is taken.
AuthChangeDelivered == events # <<>> /\ events' = Tail(events)

\* C20: an auth-change event delivered while isInitialized is false changes
\* neither user, userProfile nor the cache; one delivered afterwards is
\* applied: with a session, its user is set and cached (under USER, with
\* the time under LAST_SYNC) and a profile fetch for it is started; with no
\* session, the cache is cleared and user and userProfile are set to null.
C20_AuthChangesWaitForInitialLoad ==
  [][AuthChangeDelivered =>
       LET session == Head(events)
       IN IF ~isInitialized
          THEN UNCHANGED <<user, userProfile, localStorage, flows>>
          ELSE IF session # Null
          THEN /\ user' = session
               /\ localStorage'["USER"] = JsonText(session)
               /\ localStorage'["LAST_SYNC"] = DecimalText(now)
               /\ [userId |-> session, stage |-> "select", retryCount |-> 0,
                   inserts |-> 0, error |-> "", delay |-> 0] \in flows'
               /\ userProfile' = userProfile
          ELSE /\ user' = Null
               /\ userProfile' = NoProfile
               /\ \A key \in STORAGE_KEYS : localStorage'[key] = Absent]_vars

\* An event with a session has been applied after the initial load found no
\* session: the user is set and cached and the profile fetch is in flight.
C20_Witness ==
  /\ initPc = "done"
  /\ sessionCheck # "session"
  /\ user # Null
  /\ localStorage["USER"] = JsonText(user)
  /\ \E f \in flows : f.userId = user /\ f.stage = "select"

\* The sign-out from the profile page has settled: handleSignOut has
\* navigated, no button has been pressed since, no auth-change event waits
\* and no redirect is due.
SignOutSettled ==
  /\ signOutNav
  /\ events = <<>>
  /\ ~ENABLED redirectEffect

\* C21: after a sign-out from the profile page the app settles on the
\* landing page at '/', in whichever order the sign-out's auth-change event
\* and the navigation are processed.
C21_SignOutSettlesOnLanding == SignOutSettled => pathname = "/" /\ Screen = "Landing"

\* The item of the gallery that handleDeleteMedia was called with is one
\* uploaded in this session (its url is that of an object of a user's
\* folder, not that of the mock media).
DeletingUploaded(i) ==
  /\ pending.handler = "handleDeleteMedia"
  /\ mediaItems[i].id = pending.item
  /\ mediaItems[i].url[1] \in Users

\* C22: deleting a gallery item uploaded in this session asks object storage
\* to remove exactly the object path the item was uploaded under.
C22_DeleteRemovesTheUploadedObject ==
  \A i \in 1..Len(mediaItems) :
    DeletingUploaded(i) =>
      storageRequest.req = deleteFile("user_videos", mediaItems[i].url)

\* The generation state as handleCloseGenerateModal leaves it.
GenerationReset ==
  /\ generatedTrick = NoTrick
  /\ selectedItems = <<>>
  /\ generationError = ""

\* C23: closing the modal resets the generation state, and the result of a
\* generation that was in flight when the modal was closed is not shown
\* afterwards: when that call resolves, no trick and no error of it appear.
C23_ClosedModalDropsPendingResult ==
  /\ [][(showGenerateModal /\ ~showGenerateModal' /\ tricks' = tricks)
          => GenerationReset']_vars
  /\ [][(generation.pending /\ generation.closed /\ ~generation'.pending)
          => (generatedTrick' = NoTrick /\ generationError' = "")]_vars

\* The updateProfile call in flight resolves.
UpdateResolved == update # NoUpdate /\ update' = NoUpdate

\* C24: updateProfile with no user returns 'No user logged in' and sends no
\* update; with a user it sends the update; when the update gives an error
\* or throws, userProfile and the cached profile are unchanged; when it
\* succeeds and the profile of the call exists, both become that profile
\* overridden by the updates; and nothing else is written.
C24_UpdateProfileOutcomes ==
  /\ [](\A u \in Users \cup {Null}, bio \in Bios :
          LET call == updateProfileCall(u, userProfile, bio)
          IN IF u = Null
             THEN call.error = "No user logged in" /\ call.update = NoUpdate
             ELSE /\ call.error = ""
                  /\ call.update = [userId |-> u, base |-> userProfile,
                                    bio |-> bio])
  /\ [](update # NoUpdate =>
          /\ \A outcome \in {"error", "throws"} :
               updatedProfile(update.base, update.bio, outcome) = NoProfile
          /\ updatedProfile(NoProfile, update.bio, "ok") = NoProfile
          /\ update.base # NoProfile =>
               updatedProfile(update.base, update.bio, "ok")
                 = [id |-> update.base.id, temp |-> update.base.temp,
                    bio |-> update.bio])
  /\ [][UpdateResolved =>
          \/ UNCHANGED <<userProfile, localStorage>>
          \/ /\ update.base # NoProfile
             /\ userProfile' = [id |-> update.base.id, temp |-> update.base.temp,
                                bio |-> update.bio]
             /\ localStorage'["USER_PROFILE"] = JsonText(userProfile')
             /\ \A key \in STORAGE_KEYS \ {"USER_PROFILE"} :
                  localStorage'[key] = localStorage[key]]_vars

\* An update has succeeded: the profile in memory and in the cache is the
\* old one with the new bio.
C24_Witness ==
  /\ update = NoUpdate
  /\ userProfile # NoProfile
  /\ userProfile.bio \in Bios
  /\ userProfile.id = user
  /\ localStorage["USER_PROFILE"] = JsonText(userProfile)

\* C25: when the insert of createUserProfile throws, the catch branch
\* installs the temporary profile of that user as userProfile.
C25_ThrowInstallsTempProfile ==
  inserted.outcome = "throws" =>
    userProfile = [id |-> inserted.userId, temp |-> TRUE, bio |-> ""]

\* The insert of a trick in flight resolves.
InsertResolved == trickInsert # NoTrickInsert /\ trickInsert' = NoTrickInsert

\* The error the handler of the insert in flight shows.
SaveFailedText ==
  IF trickInsert.handler = "handleAddTrick"
  THEN "Failed to save magic trick. Please try again."
  ELSE "Failed to save generated trick. Please try again."

\* C26: adding a trick sends no insert without a user or, for the form,
\* with a title or description that is empty once trimmed; a failed insert
\* leaves the list, the form and the generated trick as they are and shows
\* an error; a successful one puts the returned row first in the list with
\* createdByMe true; saving is false after either.
C26_AddTrickOutcomes ==
  /\ [](\A title \in FormTitles, description \in FormDescriptions,
          text \in InstructionTexts, difficulty \in FormDifficulties,
          u \in Users \cup {Null} :
          handleAddTrickRow(title, description, text, difficulty, u) = NoRow
            <=> (Trim(title) = <<>> \/ Trim(description) = <<>> \/ u = Null))
  /\ [](\A u \in Users \cup {Null} :
          /\ handleSaveGeneratedTrickRow(NoTrick, u) = NoRow
          /\ generatedTrick # NoTrick =>
               (handleSaveGeneratedTrickRow(generatedTrick, u) = NoRow <=> u = Null))
  /\ [](trickInsert # NoTrickInsert =>
          /\ saving
          /\ trickInsert.row.user_id = user
          /\ user # Null)
  /\ [][InsertResolved =>
          /\ saving' = FALSE
          /\ \/ /\ tricks' = tricks
                /\ UNCHANGED <<newTitle, newDescription, newDifficulty,
                               newInstructionsText, isAddOpen, generatedTrick>>
                /\ trickError' = SaveFailedText
             \/ /\ Len(tricks') = Len(tricks) + 1
                /\ Tail(tricks') = tricks
                /\ tricks'[1].createdByMe = TRUE
                /\ \A field \in DOMAIN trickInsert.row :
                     tricks'[1][field] = trickInsert.row[field]]_vars

\* A trick has been added: it is first in the list, marked as the user's
\* own, and the page is not saving any more.
C26_Witness ==
  /\ Len(tricks) = 2
  /\ tricks[1].createdByMe
  /\ tricks[1].user_id = user
  /\ tricks[2] = LoadedTrick
  /\ ~saving
  /\ trickInsert = NoTrickInsert

====
